---------------------------- MODULE Spec2Model ----------------------------
(***************************************************************************)
(* A model of @ornery/web-components: the expression evaluator            *)
(* (getFromObj / stripES6 / template of utils), the runtime event binder   *)
(* (bindEvents), the attribute scanner (attrs-parser) and the html loader  *)
(* with the template function it generates.                                *)
(*                                                                         *)
(* JavaScript strings are sequences of one-character strings, so that the  *)
(* regular expressions of the source are modelled by what they match.      *)
(* Offsets are 1-based inside the operators and converted to JavaScript's  *)
(* 0-based offsets where the source stores them.                           *)
(***************************************************************************)
EXTENDS Integers, Sequences, FiniteSets, TLC

VARIABLES
    \* the expression evaluator (utils)
    keyLastIndex,   \* keyRegexp.lastIndex: the /g regexp object is module state
    evKind,         \* the last call: "none" | "template" | "getFromObj"
    evExpr,         \* its expression or path
    evCtx,          \* its context object
    evResult,       \* the value it returned (Undef when it did not return)
    evEnd,          \* "return" | "overflow" | "loop"
    \* the attribute scanner (attrs-parser)
    scanKind,       \* "none" | "parsed"
    scanDoc,        \* the pieces the scanned markup was written from
    scanSrc,        \* the markup passed to the scanner
    scanAttrs,      \* config.attributes, what the predicate accepts
    scanResults,    \* the list the scanner returned
    scanSteps,      \* the <<state, index>> of the parser at each turn of the call
    scanEnd,        \* "return" | "loop"
    \* the loader and the template function it generates
    tplKind,        \* "none" | "compiled" | "invoked" | "bound"
    tplDoc,         \* the source document, [src, path]
    tplText,        \* the template literal of the compiled module
    tplHtml,        \* the markup the current document was parsed from
    tplCtx,         \* the properties / context of the last call
    dom,            \* the current document (DOMParser), a sequence of nodes
    elements,       \* the node list the template function returned
    tplThrown,      \* the last call raised
    bindCount,      \* the calls of bindEvents on the current document
    dispatches,     \* the events dispatched on it, <<node, event>>
    calls,          \* the handler calls they made, [fn, this]
    \* the html loader called on a document of its own
    ldKind,         \* "none" | "loaded"
    ldSrc,          \* the content the loader was called with
    ldAttrs,        \* config.attributes
    ldFiles,        \* the files that exist, [path, css]
    ldRun,          \* what the call left behind, see htmlLoader
    \* the mount function (setup-connect)
    cnKind,         \* "none" | "setup" | "connected"
    cnList,         \* nodeList, the nodes of the list setupConnect was given
    cnContext,      \* context
    cnRoot,         \* the root the last connect was called with
    shadowChildren, \* the child nodes of each open shadow root, by host
    divChildren,    \* the child nodes of each div created so far
    cnBefore,       \* the child nodes of all of them before the last connect
    cnReturn,       \* the target it returned, <<kind, host, number>>
    \* the data store: a DataManager and the EventMap it keeps
    stMap,          \* _map, key -> value
    stCache,        \* _cache, the object getAll copies
    stSubs,         \* _subscribers, event -> list of callbacks
    stHandles,      \* the objects on returned so far, <<event, callback>>
    stCalls,        \* the calls of callbacks the last operation made
    stOp,           \* the last operation and its arguments
    stBefore        \* _map, _cache and _subscribers before it

evVars == <<evKind, evExpr, evCtx, evResult, evEnd>>
scanVars == <<scanKind, scanDoc, scanSrc, scanAttrs, scanResults, scanSteps,
              scanEnd>>
tplVars == <<tplKind, tplDoc, tplText, tplHtml, tplCtx, dom, elements,
             tplThrown, bindCount, dispatches, calls>>

ldVars == <<ldKind, ldSrc, ldAttrs, ldFiles, ldRun>>

cnVars == <<cnKind, cnList, cnContext, cnRoot, shadowChildren, divChildren,
            cnBefore, cnReturn>>

stVars == <<stMap, stCache, stSubs, stHandles, stCalls, stOp, stBefore>>

vars == <<keyLastIndex, evVars, scanVars, tplVars, ldVars, cnVars, stVars>>

-----------------------------------------------------------------------------
(* Characters and character classes of the regular expressions.            *)

Lower == {"a","b","c","d","e","f","g","h","i","j","k","l","m",
          "n","o","p","q","r","s","t","u","v","w","x","y","z"}

Upper == {"A","B","C","D","E","F","G","H","I","J","K","L","M",
          "N","O","P","Q","R","S","T","U","V","W","X","Y","Z"}

Digit == {"0","1","2","3","4","5","6","7","8","9"}

\* \w
WordChar == Lower \cup Upper \cup Digit \cup {"_"}

\* \s (the members that occur in the model's inputs)
Space == {" ", "\n", "\t"}

\* s.substr(i - 1) for a 1-based i
From(s, i) == SubSeq(s, i, Len(s))

\* TRUE when pat occurs in s at the 1-based position i
At(s, i, pat) ==
    /\ i >= 1
    /\ i + Len(pat) - 1 <= Len(s)
    /\ SubSeq(s, i, i + Len(pat) - 1) = pat

\* the chars s[i..j] hold no line terminator (what .* and .+? may cross)
NoLineEnd(s, i, j) ==
    LET
        \* what . does not match
        LineEnd == {"\n", "\r"}
    IN
    \A k \in i..j : s[k] \notin LineEnd

\* first position p in lo..Len(s) with s[p] in cs, or 0 (lo >= 1)
RECURSIVE FirstIn(_, _, _)
FirstIn(s, lo, cs) ==
    IF lo > Len(s) THEN 0
    ELSE IF s[lo] \in cs THEN lo
    ELSE FirstIn(s, lo + 1, cs)

\* first position p in lo..Len(s) where pat occurs, or 0 (lo >= 1)
RECURSIVE FirstAt(_, _, _)
FirstAt(s, lo, pat) ==
    IF lo + Len(pat) - 1 > Len(s) THEN 0
    ELSE IF SubSeq(s, lo, lo + Len(pat) - 1) = pat THEN lo
    ELSE FirstAt(s, lo + 1, pat)

\* String.prototype.trim: s from its first to its last character that is no
\* white space
Trim(s) ==
    LET
        Inked == {k \in 1..Len(s) : s[k] \notin Space}

        Between(S) ==
            SubSeq(s, CHOOSE x \in S : \A y \in S : x <= y,
                      CHOOSE x \in S : \A y \in S : y <= x)
    IN
    IF \A k \in 1..Len(s) : s[k] \in Space THEN <<>> ELSE Between(Inked)

\* String.prototype.split('.'); d is the position of the first dot, or 0
RECURSIVE SplitDot(_)
SplitDot(s) ==
    LET
        SplitDotAt(d) ==
            IF d = 0 THEN <<s>>
            ELSE <<SubSeq(s, 1, d - 1)>> \o SplitDot(From(s, d + 1))
    IN
    SplitDotAt(FirstIn(s, 1, {"."}))

\* decimal digits of a natural number
RECURSIVE Digits(_)
Digits(n) ==
    LET d == <<"0","1","2","3","4","5","6","7","8","9">>[(n % 10) + 1]
    IN  IF n < 10 THEN <<d>> ELSE Digits(n \div 10) \o <<d>>

-----------------------------------------------------------------------------
(* JavaScript values.  Every value is a record of the same shape:          *)
(*   t: "undef" | "str" | "num" | "fn" | "obj"                             *)
(*   s: the characters of a string, the digits of a number, the name of a  *)
(*      function                                                           *)
(*   o: the own properties of an object, a set of <<key, value>> pairs     *)

Undef   == [t |-> "undef", s |-> <<>>, o |-> {}]

Str(s)  == [t |-> "str", s |-> s, o |-> {}]

Fn(f)   == [t |-> "fn", s |-> f, o |-> {}]

Obj(ps) == [t |-> "obj", s |-> <<>>, o |-> ps]

\* v[key]: an own property of an object; length and the indexed characters
\* of a string; undefined otherwise
GetProp(v, key) ==
    LET
        Num(n) == [t |-> "num", s |-> Digits(n), o |-> {}]

        Keys == {p[1] : p \in v.o}
    IN
    CASE v.t = "obj" ->
            IF key \in Keys
            THEN (CHOOSE p \in v.o : p[1] = key)[2]
            ELSE Undef
      [] v.t = "str" ->
            IF key = <<"l","e","n","g","t","h">> THEN Num(Len(v.s))
            ELSE IF /\ Len(key) = 1
                    /\ key[1] \in Digit
                    /\ \E i \in 1..Len(v.s) : Digits(i - 1) = key
                 THEN Str(<<v.s[CHOOSE i \in 1..Len(v.s) : Digits(i - 1) = key]>>)
                 ELSE Undef
      [] OTHER -> Undef

\* x != null
NotNull(v) == v.t # "undef"

\* String(v), as String.prototype.replace applies it to a replacement
ToStr(v) ==
    LET
        \* the source text of the function named f, what String(fn) gives
        FnSource(f) == <<"(",")","=",">">> \o f \o <<"(",")">>
    IN
    CASE v.t = "str" -> v.s
      [] v.t = "num" -> v.s
      [] v.t = "fn"  -> FnSource(v.s)
      [] v.t = "obj" -> <<"[","o","b","j","e","c","t"," ",
                          "O","b","j","e","c","t","]">>
      [] OTHER       -> <<"u","n","d","e","f","i","n","e","d">>

-----------------------------------------------------------------------------
(* getFromObj                                                              *)

\* keyRegexp.test(s) with the regexp's lastIndex li.  The regexp carries the
\* g flag: the search starts at lastIndex, where ^ matches only if it is 0;
\* a match leaves lastIndex at its end, a failure resets it to 0.
keyRegexpTest(s, li) ==
    LET
        \* keyRegexp = /^[\w-]+(\.[\w-]+)+$/ matched against the whole of a string
        \* whose segments between the dots are segs
        keyRegexpSegs(segs) ==
            /\ Len(segs) >= 2
            /\ \A i \in 1..Len(segs) :
                  /\ segs[i] # <<>>
                  /\ \A k \in 1..Len(segs[i]) : segs[i][k] \in WordChar \cup {"-"}

        keyRegexpMatches == keyRegexpSegs(SplitDot(s))
    IN
    IF li = 0 /\ keyRegexpMatches
    THEN [ok |-> TRUE, li |-> Len(s)]
    ELSE [ok |-> FALSE, li |-> 0]

\* path.split('.').reduce((res, key) => res[key] != null ? res[key] : path, obj)
\* over the segments segs that are left, res the accumulator
RECURSIVE reducePath(_, _, _)
reducePath(segs, res, path) ==
    LET
        reduceStep(v) == IF NotNull(v) THEN v ELSE Str(path)
    IN
    IF segs = <<>> THEN res
    ELSE reducePath(Tail(segs), reduceStep(GetProp(res, Head(segs))), path)

\* getFromObj(path, obj) with keyRegexp.lastIndex = li:
\* [v |-> the value returned, li |-> keyRegexp.lastIndex afterwards]
getFromObj(rawPath, obj, li) ==
    LET
        \*   lines 111-115: t is the outcome of keyRegexp.test(path)
        getFromObjWalk(path, t) ==
            IF t.ok
            THEN [v |-> reducePath(SplitDot(path), obj, path), li |-> t.li]
            ELSE [v |-> Str(path), li |-> t.li]

        \*   lines 109-111: own is obj[path]; the regexp is tested only when it is
        \*   null or undefined
        getFromObjOwn(path, own) ==
            IF NotNull(own) THEN [v |-> own, li |-> li]
            ELSE getFromObjWalk(path, keyRegexpTest(path, li))

        getFromObjTrimmed(path) ==
            getFromObjOwn(path, GetProp(obj, path))
    IN
    getFromObjTrimmed(Trim(rawPath))

-----------------------------------------------------------------------------
(* stripES6 / template                                                     *)

Open  == <<"$", "{">>

Close == <<"}">>

\* expr.replace(thisRegex, '') with thisRegex = /^[this|props]\./gi: the
\* brackets make a character class, so the regexp matches ONE of the
\* characters t h i s | p r o (in either case) followed by a dot, at offset 0
stripThis(s) ==
    LET
        thisRegexClass ==
            {"t","h","i","s","|","p","r","o","T","H","I","S","P","R","O"}
    IN
    IF Len(s) >= 2 /\ s[1] \in thisRegexClass /\ s[2] = "."
    THEN From(s, 3)
    ELSE s

\* the end of the marker that es6Regex = /\$\{(.+?)\}/ matches at i, or 0:
\* "${", one or more characters other than a line end, the first "}" after
\* them (j)
es6End(s, i) ==
    LET
        es6EndAt(j) ==
            IF j # 0 /\ NoLineEnd(s, i + 2, j - 1) THEN j ELSE 0
    IN
    IF ~At(s, i, Open) THEN 0 ELSE es6EndAt(FirstIn(s, i + 3, {"}"}))

\* the least and the greatest member of a set of positions
SetMin(S) == CHOOSE x \in S : \A y \in S : x <= y
SetMax(S) == CHOOSE x \in S : \A y \in S : y <= x

\* nestedES6.exec(s) from lastIndex 0: the leftmost match.
\* [found, from, to]: the span of capture group 1.
nestedES6Exec(s) ==
    LET
        \* the inner markers of ks the match can reach when it starts at o: the
        \* leading .* crosses no line end
        nestedReach(o, ks) ==
            {k \in ks : k >= o + 2 /\ NoLineEnd(s, o + 2, k - 1)}

        \* nestedES6 = /\$\{.*(\$\{(.+?)\}).*\}/: capture group 1 can hold a marker
        \* that ends at e when a "}" (the first one is at m) follows it on the same
        \* line
        nestedClosed(e, m) == m # 0 /\ NoLineEnd(s, e + 1, m - 1)

        nestedInnerEnd(e) ==
            e # 0 /\ nestedClosed(e, FirstIn(s, e + 1, {"}"}))

        nestedInner == {k \in 1..Len(s) : nestedInnerEnd(es6End(s, k))}

        \* the starts of the matches of nestedES6 in s
        nestedStarts(ks) ==
            {o \in 1..Len(s) : At(s, o, Open) /\ nestedReach(o, ks) # {}}

        \* the greedy .* takes the last inner marker the match can reach
        nestedES6Span(k) == [found |-> TRUE, from |-> k, to |-> es6End(s, k)]

        nestedES6From(ks, starts) ==
            IF starts = {} THEN [found |-> FALSE, from |-> 0, to |-> 0]
            ELSE nestedES6Span(SetMax(nestedReach(SetMin(starts), ks)))

        nestedES6In(ks) == nestedES6From(ks, nestedStarts(ks))
    IN
    nestedES6In(nestedInner)

\* result.replace(es6Regex, (match, $1) => getFromObj($1, context)) from the
\* position pos on, the callbacks run left to right: [out, li].
\*   i, j: the next marker is s[i..j];  r: what getFromObj gave for it
RECURSIVE es6Replace(_, _, _, _)
es6Replace(s, pos, ctx, li) ==
    LET
        \* the first position at or after pos where es6Regex matches, or 0
        es6Start ==
            IF \E i \in pos..Len(s) : es6End(s, i) # 0
            THEN SetMin({i \in pos..Len(s) : es6End(s, i) # 0})
            ELSE 0

        es6Join(head, rest) == [out |-> head \o rest.out, li |-> rest.li]

        es6ReplaceRest(i, j, r) ==
            es6Join(SubSeq(s, pos, i - 1) \o ToStr(r.v),
                    es6Replace(s, j + 1, ctx, r.li))

        es6ReplaceOne(i, j) ==
            es6ReplaceRest(i, j,
                           getFromObj(SubSeq(s, i + 2, j - 1), ctx, li))

        es6ReplaceAt(i) ==
            IF i = 0 THEN [out |-> From(s, pos), li |-> li]
            ELSE es6ReplaceOne(i, es6End(s, i))
    IN
    es6ReplaceAt(es6Start)

\* stripES6(expr, context) with keyRegexp.lastIndex = li.
\*   [out, li, end]: end is "return", or "overflow" when the recursion never
\*   ends (JavaScript raises RangeError: Maximum call stack size exceeded),
\*   or "loop" when the while loop never ends.
\* The active calls are kept as frames, the innermost last.  A frame holds
\*   entry: the <<expr, lastIndex>> the call was entered with: entering an
\*          active call again repeats the same steps for ever;
\*   iter:  the <<result, lastIndex>> its while loop has already tested.
\* nestedES6.lastIndex is 0 at every exec: set at line 131, and each
\* recursive call returns after a failed exec, which resets it.

RECURSIVE stripES6Run(_, _, _, _)
stripES6Run(result, ctx, li, frames) ==
    LET
        \* s.replace(pat, rep) for a string pat: the first occurrence (at i) only.
        \* The replacement patterns ($$, $&, ...) are not modelled: no value of the
        \* model's contexts holds one.
        replaceAt(s, i, pat, rep) ==
            IF i = 0 THEN s
            ELSE SubSeq(s, 1, i - 1) \o rep \o From(s, i + Len(pat))

        replaceFirst(s, pat, rep) == replaceAt(s, FirstAt(s, 1, pat), pat, rep)

        \* line 139: the final replace (f is its outcome) and the return, to the
        \* caller's while loop or out of the outermost call
        stripES6Return(f) ==
            [done |-> Len(frames) = 1, end |-> "return",
             result |-> f.out, li |-> f.li,
             frames |-> SubSeq(frames, 1, Len(frames) - 1)]

        \* line 137: the recursive call on next, with lastIndex nli
        stripES6Call(next, nli) ==
            IF \E i \in 1..Len(frames) : frames[i].entry = <<next, nli>>
            THEN [done |-> TRUE, end |-> "overflow",
                  result |-> next, li |-> nli, frames |-> frames]
            ELSE [done |-> FALSE, end |-> "return",
                  result |-> stripThis(next), li |-> nli,
                  frames |-> [frames EXCEPT ![Len(frames)].iter =
                                                @ \cup {<<result, li>>}]
                             \o <<[entry |-> <<next, nli>>, iter |-> {}]>>]

        \* lines 135-137: outerMatch is capture group 1, r the outcome of
        \* getFromObj(key, context)
        stripES6Splice(outerMatch, r) ==
            stripES6Call(Trim(replaceFirst(result, outerMatch, ToStr(r.v))),
                         r.li)

        \* one turn of the while loop of the innermost call; m is the outcome of
        \* nestedES6.exec(result)
        stripES6Match(m) ==
            IF ~m.found
            THEN stripES6Return(es6Replace(result, 1, ctx, li))
            ELSE IF <<result, li>> \in frames[Len(frames)].iter
            THEN [done |-> TRUE, end |-> "loop",
                  result |-> result, li |-> li, frames |-> frames]
            ELSE stripES6Splice(SubSeq(result, m.from, m.to),
                                getFromObj(SubSeq(result, m.from + 2, m.to - 1),
                                           ctx, li))

        stripES6Step ==
            stripES6Match(nestedES6Exec(result))

        stripES6Next(s) ==
            IF s.done THEN [out |-> s.result, li |-> s.li, end |-> s.end]
            ELSE stripES6Run(s.result, ctx, s.li, s.frames)
    IN
    stripES6Next(stripES6Step)

stripES6(expr, ctx, li) ==
    stripES6Run(stripThis(expr), ctx, li,
                <<[entry |-> <<expr, li>>, iter |-> {}]>>)

\* template = stripES6, called from outside
template(expr, ctx, li) == stripES6(expr, ctx, li)

-----------------------------------------------------------------------------
(* The evaluator's inputs.                                                 *)

\* nesting depth of the generated expressions
MaxNest == 2

Mk(p)     == Open \o p \o Close

Dot(p, q) == p \o <<".">> \o q

ThisDot(p)  == <<"t","h","i","s",".">> \o p

PropsDot(p) == <<"p","r","o","p","s",".">> \o p

kA == <<"a">>
kB == <<"b">>
kC == <<"c">>
kP == <<"p">>
kGo == <<"g","o">>
sX == <<"x">>
sOk == <<"o","k">>

DottedPaths == {Dot(kA, kB), Dot(kA, kC)}

EvPaths ==
    LET
        TopKeys == {kA, kB, kP}
    IN
    TopKeys \cup DottedPaths

\* templates without nesting: one marker, two markers, and the forms with
\* and without the this. / props. prefix
PlainTemplates ==
    {Mk(p) : p \in EvPaths}
    \cup {Mk(p) \o <<" ">> \o Mk(q) : p, q \in DottedPaths}
    \cup {kP, ThisDot(kP), PropsDot(kP), Mk(ThisDot(kP)), Mk(PropsDot(kP)),
          <<" ">> \o Mk(kP) \o <<" ">>}

\* the paths nested d deep: a key followed by a dot and a marker that holds
\* a path nested d - 1 deep
RECURSIVE NestedPaths(_)
NestedPaths(d) ==
    IF d = 0 THEN {kB, kC}
    ELSE {Dot(k, Mk(e)) : k \in {kA, kB}, e \in NestedPaths(d - 1)}

NestedTemplates == {Mk(p) : p \in UNION {NestedPaths(d) : d \in 1..MaxNest}}

\* {}
ctxEmpty == Obj({})

PlainContexts ==
    LET
        \* {a: {b: "x"}, p: "v"}
        ctxAB == Obj({<<kA, Obj({<<kB, Str(sX)>>})>>, <<kP, Str(<<"v">>)>>})
    IN
    {ctxAB, ctxEmpty}

NestedContexts ==
    LET
        kD == <<"d">>

        kE == <<"e">>

        \* {b: "c", a: {c: "ok"}}
        ctxNested == Obj({<<kB, Str(kC)>>, <<kA, Obj({<<kC, Str(sOk)>>})>>})

        \* {c: "d", b: {d: "e"}, a: {e: "ok"}}
        ctxDeep == Obj({<<kC, Str(kD)>>,
                        <<kB, Obj({<<kD, Str(kE)>>})>>,
                        <<kA, Obj({<<kE, Str(sOk)>>})>>})

        \* {b: "${b}"}: a string value that is itself a marker
        ctxSelf == Obj({<<kB, Str(Mk(kB))>>})
    IN
    {ctxNested, ctxDeep, ctxSelf}

\* the calls made: <<expr, context>>
EvCalls == (PlainTemplates \X PlainContexts)
           \cup (NestedTemplates \X NestedContexts)

-----------------------------------------------------------------------------
(* attrs-parser: the attribute scanner, a fastparse state machine.         *)
(* fastparse joins the patterns of a state into one alternation, in the    *)
(* order they are written, and at each turn searches the input from        *)
(* currentIndex on: the match is the leftmost position where an            *)
(* alternative matches and, there, the first alternative that does.        *)
(* A match is [alt, last, ...]: alt is 0 when nothing matches, last the    *)
(* 1-based position of the last character matched.                         *)

\* the last position of the longest run of characters of cs that starts at
\* i (i - 1 when s[i] is not in cs): what a greedy cs* takes
RECURSIVE RunEnd(_, _, _)
RunEnd(s, i, cs) ==
    IF i <= Len(s) /\ s[i] \in cs THEN RunEnd(s, i + 1, cs) ELSE i - 1

\* the same for the characters that are not in cs
RECURSIVE RunEndNot(_, _, _)
RunEndNot(s, i, cs) ==
    IF i <= Len(s) /\ s[i] \notin cs THEN RunEndNot(s, i + 1, cs) ELSE i - 1

\* '\\s*' in the place of '\\s+': the pattern also matches the empty string
inSpaceOrNone(s, p) == RunEnd(s, p, Space)

\* '\\s+' at the position p: the last position of the run of white space
\* that starts there, or 0 when there is none
inSpace(s, p) == IF s[p] \in Space THEN RunEnd(s, p, Space) ELSE 0

\* regex.exec(string) with lastIndex = currentIndex: the search from the
\* position p on
RECURSIVE stateExec(_, _, _)
stateExec(state, s, p) ==
    LET
        \* [a-zA-Z\-:] and [a-zA-Z0-9\-:]
        TagChar == Lower \cup Upper \cup {"-", ":"}

        NameChar == TagChar \cup Digit

        NoMatch == [alt |-> 0, last |-> 0]

        \* a match of an attribute pattern: end is capture group 1, with the quote
        \* for the quoted patterns
        attrMatch(h, alt, endLast, valFirst, valLast, last) ==
            [alt |-> alt, last |-> last,
             end |-> SubSeq(s, p, endLast),
             name |-> SubSeq(s, p, h.nameEnd),
             value |-> SubSeq(s, valFirst, valLast)]

        \* '<!--.*?-->': q is the first "-->" after the opening; . crosses no line end
        outCommentTo(q) ==
            IF q # 0 /\ NoLineEnd(s, p + 4, q - 1) THEN q + 2 ELSE 0

        outComment ==
            IF At(s, p, <<"<","!","-","-">>)
            THEN outCommentTo(FirstAt(s, p + 4, <<"-", "-", ">">>))
            ELSE 0

        \* '<![CDATA[.*?]]>': as a regular expression this is "<!", one character of
        \* the class [CDATA[.*?] and "]>"
        outCdata ==
            IF /\ At(s, p, <<"<","!">>)
               /\ p + 4 <= Len(s)
               /\ s[p + 2] \in {"C","D","A","T","[",".","*","?"}
               /\ At(s, p + 3, <<"]",">">>)
            THEN p + 4 ELSE 0

        \* '<[!\\?].*?>': q is the first ">" after the two opening characters
        outDeclTo(q) ==
            IF q # 0 /\ NoLineEnd(s, p + 2, q - 1) THEN q ELSE 0

        outDecl ==
            IF At(s, p, <<"<">>) /\ p + 1 <= Len(s) /\ s[p + 1] \in {"!", "?"}
            THEN outDeclTo(FirstIn(s, p + 2, {">"}))
            ELSE 0

        \* '<\\/[^>]+>': q is the first ">" after "</"
        outCloseTo(q) == IF q >= p + 3 THEN q ELSE 0

        outClose ==
            IF At(s, p, <<"<","/">>)
            THEN outCloseTo(FirstIn(s, p + 2, {">"}))
            ELSE 0

        \* '<([a-zA-Z\\-:]+)\\s*': e is the end of the tag name
        outOpenTo(e) ==
            IF e >= p + 1
            THEN [alt |-> 5, last |-> RunEnd(s, e + 1, Space),
                  tag |-> SubSeq(s, p + 1, e)]
            ELSE NoMatch

        outOpen ==
            IF At(s, p, <<"<">>) THEN outOpenTo(RunEnd(s, p + 1, TagChar))
            ELSE NoMatch

        \* the alternation of the outside state at the position p
        outsideAt ==
            IF outComment # 0 THEN [alt |-> 1, last |-> outComment]
            ELSE IF outCdata # 0 THEN [alt |-> 2, last |-> outCdata]
            ELSE IF outDecl # 0 THEN [alt |-> 3, last |-> outDecl]
            ELSE IF outClose # 0 THEN [alt |-> 4, last |-> outClose]
            ELSE outOpen

        \* ([a-zA-Z0-9\\-:]+)\\s*=\\s* at p, the head the three attribute patterns
        \* share: [ok, nameEnd, val], val the position after the head
        attrHeadEq(e, w) ==
            IF w + 1 <= Len(s) /\ s[w + 1] = "="
            THEN [ok |-> TRUE, nameEnd |-> e, val |-> RunEnd(s, w + 2, Space) + 1]
            ELSE [ok |-> FALSE, nameEnd |-> 0, val |-> 0]

        attrHeadName(e) ==
            IF e >= p THEN attrHeadEq(e, RunEnd(s, e + 1, Space))
            ELSE [ok |-> FALSE, nameEnd |-> 0, val |-> 0]

        attrHead == attrHeadName(RunEnd(s, p, NameChar))

        \* '(([a-zA-Z0-9\\-:]+)\\s*=\\s*)([^\\s>]+)': e is the end of the value
        inUnquotedTo(h, e) ==
            IF e >= h.val THEN attrMatch(h, 3, h.val - 1, h.val, e, e)
            ELSE NoMatch

        inUnquoted(h) ==
            inUnquotedTo(h, RunEndNot(s, h.val, Space \cup {">"}))

        \* '(([a-zA-Z0-9\\-:]+)\\s*=\\s*\')([^\']*)\'' and the same with ":
        \* q is the closing quote
        inQuotedTo(h, alt, q) ==
            IF q # 0 THEN attrMatch(h, alt, h.val, h.val + 1, q - 1, q)
            ELSE NoMatch

        inQuoted(h, alt, quote) ==
            IF h.val <= Len(s) /\ s[h.val] = quote
            THEN inQuotedTo(h, alt, FirstIn(s, h.val + 1, {quote}))
            ELSE NoMatch

        inAttr(h) ==
            IF ~h.ok THEN NoMatch
            ELSE IF inUnquoted(h).alt # 0 THEN inUnquoted(h)
            ELSE IF inQuoted(h, 4, "'").alt # 0 THEN inQuoted(h, 4, "'")
            ELSE inQuoted(h, 5, "\"")

        \* the alternation of the inside state at the position p
        insideAt ==
            IF s[p] = ">" THEN [alt |-> 1, last |-> p]
            ELSE IF inSpace(s, p) # 0 THEN [alt |-> 2, last |-> inSpace(s, p)]
            ELSE inAttr(attrHead)

        stateAt ==
            IF state = "outside" THEN outsideAt ELSE insideAt
    IN
    IF p > Len(s) THEN NoMatch
    ELSE IF stateAt.alt # 0
    THEN [at |-> p] @@ stateAt
    ELSE stateExec(state, s, p + 1)

\* the predicate htmlLoader passes to the scanner, for config.attributes
tagAttr(attributes, tag, attr) ==
    \E a \in attributes :
        IF a # <<>> /\ a[1] = ":" THEN attr = Tail(a)
        ELSE tag \o <<":">> \o attr = a

\* Parser.parse: the turns of for(;;) from c on, until no pattern of the
\* state matches.  c is [state, index, currentTag, results, done, steps, end]:
\*   steps: the <<state, index>> of every turn so far, the first one included;
\*   end:   "return", or "loop" when a turn leaves the parser in a state and at
\*          an index it has been in before: the turns then repeat for ever
RECURSIVE parseRun(_, _, _)
parseRun(c, s, attributes) ==
    LET
        \* the callback of an attribute pattern: index is the 0-based offset of the
        \* match
        attrResult(m) ==
            [start |-> (m.at - 1) + Len(m.end),
             length |-> Len(m.value),
             value |-> m.value]

        \* one turn: m is the match, its callback or its next state is applied
        parseMatch(m) ==
            IF m.alt = 0 THEN [c EXCEPT !.done = TRUE, !.end = "return"]
            ELSE IF c.state = "outside"
            THEN IF m.alt = 5
                 THEN [c EXCEPT !.state = "inside", !.index = m.last,
                                !.currentTag = m.tag]
                 ELSE [c EXCEPT !.index = m.last]
            ELSE IF m.alt = 1
                 THEN [c EXCEPT !.state = "outside", !.index = m.last]
            ELSE IF m.alt = 2 \/ ~tagAttr(attributes, c.currentTag, m.name)
                 THEN [c EXCEPT !.index = m.last]
            ELSE [c EXCEPT !.index = m.last,
                           !.results = Append(@, attrResult(m))]

        parseTurn ==
            parseMatch(stateExec(c.state, s, c.index + 1))

        parseNext(n) ==
            IF n.done THEN n
            ELSE IF \E k \in 1..Len(c.steps) : c.steps[k] = <<n.state, n.index>>
            THEN [n EXCEPT !.done = TRUE, !.end = "loop"]
            ELSE parseRun([n EXCEPT !.steps = Append(@, <<n.state, n.index>>)],
                          s, attributes)
    IN
    parseNext(parseTurn)

\* the scan with the list of results last first, as the loader turns it
\* before it rewrites the content
attrsParserParseReversed(html, attributes) ==
    LET
        Reversed(c) ==
            [c EXCEPT !.results =
                [k \in 1..Len(c.results) |-> c.results[Len(c.results) + 1 - k]]]
    IN
    Reversed(parseRun([state |-> "outside", index |-> 0, currentTag |-> <<>>,
                       results |-> <<>>, done |-> FALSE,
                       steps |-> << <<"outside", 0>> >>, end |-> "return"],
                      html, attributes))

\* module.exports = (html, tagAttr) => attrsParser.parse('outside', html,
\*   {currentTag: null, results: [], tagAttr}).results
attrsParserParse(html, attributes) ==
    parseRun([state |-> "outside", index |-> 0, currentTag |-> <<>>,
              results |-> <<>>, done |-> FALSE,
              steps |-> << <<"outside", 0>> >>, end |-> "return"],
             html, attributes)

attrParse(html, attributes) == attrsParserParse(html, attributes).results

-----------------------------------------------------------------------------
(* html-loader: the steps of htmlLoader on the file content.               *)

\* String.prototype.toLowerCase, what the i flag and the HTML parser apply
ToLower(s) ==
    LET
        Alphabet == <<"a","b","c","d","e","f","g","h","i","j","k","l","m",
                      "n","o","p","q","r","s","t","u","v","w","x","y","z">>

        Capitals == <<"A","B","C","D","E","F","G","H","I","J","K","L","M",
                      "N","O","P","Q","R","S","T","U","V","W","X","Y","Z">>

        LowerChar(c) ==
            IF c \in Upper THEN Alphabet[CHOOSE k \in 1..26 : Capitals[k] = c] ELSE c
    IN
    [k \in 1..Len(s) |-> LowerChar(s[k])]

Quote == {"\"", "'"}

\* Array.prototype.join(''): undefined joins as the empty string
RECURSIVE Join(_)
Join(parts) == IF parts = <<>> THEN <<>> ELSE Head(parts) \o Join(Tail(parts))

\* lines 163-166: let ident; while (data[ident]) ident = <a new token>.
\* ident starts undefined, its key is "undefined" and join makes "" of it;
\* the draws of Math.random are rnds, taken in order.
\*   data: the set of <<key, value>> pairs recorded so far
\*   [key, text, rnds]: the key of ident, what join makes of it, the draws left
RECURSIVE nextIdent(_, _, _, _)
nextIdent(data, key, text, rnds) ==
    LET
        \* '~~~HTMLLINK~~~' + Math.random() + Math.random() + '~~~' for the draw r
        linkToken(r) ==
            <<"~","~","~","H","T","M","L","L","I","N","K","~","~","~">> \o r
            \o <<"~","~","~">>
    IN
    IF (\E d \in data : d[1] = key /\ d[2] # <<>>) /\ rnds # <<>>
    THEN nextIdent(data, linkToken(Head(rnds)), linkToken(Head(rnds)),
                   Tail(rnds))
    ELSE [key |-> key, text |-> text, rnds |-> rnds]

\* links.forEach(callback): c is [parts, data, rnds, done], parts the array
\* content, done the links that were replaced, each with what the callback
\* left in it (start, length, value) and what join makes of its ident
RECURSIVE linkForEach(_, _)
linkForEach(c, links) ==
    LET
        \* loaderUtils.isUrlRequest(url, '') of loader-utils: not an absolute URL
        \* with a scheme, not protocol-relative, not a template or fragment (the
        \* first character is none of { } [ ] # * ; , ' $ % & ( = ? ^ < >)
        hasScheme(url, e) ==
            /\ e >= 1
            /\ url[1] \in Lower \cup Upper
            /\ e + 1 <= Len(url)
            /\ url[e + 1] = ":"

        isUrlRequest(url) ==
            /\ url # <<>>
            /\ ~hasScheme(url, RunEnd(url, 1, Lower \cup Upper \cup Digit \cup {"+", ".", "-"}))
            /\ ~At(url, 1, <<"/","/">>)
            /\ url[1] \notin {"{","}","[","]","#","*",";",",","'","$","%","&",
                              "(","=","?","^","<",">"}

        \* lines 157-162: url.parse, uri.hash = null, uri.format(): the reference
        \* without its fragment; h is the position of the first "#".  url.parse
        \* escapes the characters of its autoEscape list, so that format() gives
        \* %22 for a double quote
        autoEscape(ch) ==
            IF ch = "\"" THEN <<"%","2","2">>
            ELSE IF ch = "'" THEN <<"%","2","7">>
            ELSE IF ch = "<" THEN <<"%","3","C">>
            ELSE IF ch = "{" THEN <<"%","7","B">>
            ELSE IF ch = "}" THEN <<"%","7","D">>
            ELSE IF ch = "|" THEN <<"%","7","C">>
            ELSE IF ch = "^" THEN <<"%","5","E">>
            ELSE <<ch>>

        dropHashAt(value, h) ==
            IF h = 0 THEN value
            ELSE Join([k \in 1..(h - 1) |-> autoEscape(value[k])])

        dropHash(value) == dropHashAt(value, FirstIn(value, 1, {"#"}))

        \* String(undefined), the key of data[ident] while ident is undefined
        sUndefined == <<"u","n","d","e","f","i","n","e","d">>

        \* x.substr(0, n): the first n characters, all of x when it has fewer
        substr0(x, n) == SubSeq(x, 1, IF n <= Len(x) THEN n ELSE Len(x))

        \* lines 167-171 for one link: x = content.pop(), then the three pushes
        \*   value: link.value after lines 157-162
        \*   id: the outcome of the while loop, id.text what join makes of ident
        linkSplit(link, value, id) ==
            [parts |-> SubSeq(c.parts, 1, Len(c.parts) - 1)
                       \o << From(c.parts[Len(c.parts)],
                                  link.start + Len(value) + 1),
                             id.text,
                             substr0(c.parts[Len(c.parts)], link.start) >>,
             data |-> {d \in c.data : d[1] # id.key} \cup {<<id.key, value>>},
             rnds |-> id.rnds,
             done |-> Append(c.done, [start |-> link.start,
                                      length |-> Len(value),
                                      value |-> value,
                                      ident |-> id.text])]

        linkIdent(link, value) ==
            linkSplit(link, value, nextIdent(c.data, sUndefined, <<>>, c.rnds))

        \* the callback of links.forEach, lines 152-172
        linkEach(link) ==
            IF ~isUrlRequest(link.value) THEN c
            ELSE IF FirstAt(link.value, 1, <<"m","a","i","l","t","o",":">>) # 0 THEN c
            ELSE linkIdent(link, dropHash(link.value))
    IN
    IF links = <<>> THEN c
    ELSE linkForEach(linkEach(Head(links)), Tail(links))

\* links.forEach without links.reverse(): the links are taken in the order
\* of the document
replaceLinksForward(content, links, rnds) ==
    LET
        Reverse(q) == [k \in 1..Len(q) |-> q[Len(q) + 1 - k]]

        linksJoined(c) ==
            [content |-> Join(Reverse(c.parts)), data |-> c.data, done |-> c.done]
    IN
    linksJoined(linkForEach([parts |-> <<content>>, data |-> {}, rnds |-> rnds,
                             done |-> <<>>],
                            links))

\* lines 149-174: the references the scanner found are replaced, the links
\* taken last first: [content, data, done], content the joined text
replaceLinks(content, links, rnds) ==
    LET
        Reverse(q) == [k \in 1..Len(q) |-> q[Len(q) + 1 - k]]

        linksJoined(c) ==
            [content |-> Join(Reverse(c.parts)), data |-> c.data, done |-> c.done]
    IN
    linksJoined(linkForEach([parts |-> <<content>>, data |-> {}, rnds |-> rnds,
                             done |-> <<>>],
                            Reverse(links)))

\* the pattern with " in the place of ["']: only values in double quotes
onMatchAtDouble(s, p) ==
    LET
        onNoMatch == [ok |-> FALSE, last |-> 0, cg1 |-> <<>>, cg2 |-> <<>>]

        Min(a, b) == IF a <= b THEN a ELSE b

        onQuoteAt(e, j, k) ==
            IF k # 0 /\ NoLineEnd(s, j + 1, k - 1)
            THEN [ok |-> TRUE, last |-> k,
                  cg1 |-> <<>>, cg2 |-> SubSeq(s, e + 5, j - 1)]
            ELSE onNoMatch

        onCloseAt(e, j) ==
            IF j # 0 /\ NoLineEnd(s, e + 5, j - 1)
            THEN onQuoteAt(e, j, FirstIn(s, j + 1, {"\""}))
            ELSE onNoMatch

        onValueAt(e) ==
            IF /\ e >= p + 2
               /\ At(s, e + 1, <<"=">>)
               /\ e + 2 <= Len(s)
               /\ s[e + 2] = "\""
               /\ At(s, e + 3, Open)
            THEN [onCloseAt(e, FirstIn(s, e + 6, {"}"}))
                    EXCEPT !.cg1 = SubSeq(s, p + 2, e)]
            ELSE onNoMatch
    IN
    IF At(ToLower(SubSeq(s, p, Min(p + 1, Len(s)))), 1, <<"o","n">>)
    THEN onValueAt(RunEnd(s, p + 2, WordChar))
    ELSE onNoMatch

\* line 177: content.replace(/on(\w+?)=["']\$\{(.+?)\}.*?["']/gmi,
\*                           (m, cg1, cg2) => 'on' + cg1 + '="' + cg2 + '"')
\* the match at p, [ok, last, cg1, cg2]: "on" in either case, the run of
\* word characters up to e, "=", a quote, "${", the characters up to the
\* first "}" (at j, one character at least before it), the characters up to
\* the first quote of either kind (at k); . crosses no line end
onMatchAt(s, p) ==
    LET
        onNoMatch == [ok |-> FALSE, last |-> 0, cg1 |-> <<>>, cg2 |-> <<>>]

        Min(a, b) == IF a <= b THEN a ELSE b

        onQuoteAt(e, j, k) ==
            IF k # 0 /\ NoLineEnd(s, j + 1, k - 1)
            THEN [ok |-> TRUE, last |-> k,
                  cg1 |-> <<>>, cg2 |-> SubSeq(s, e + 5, j - 1)]
            ELSE onNoMatch

        onCloseAt(e, j) ==
            IF j # 0 /\ NoLineEnd(s, e + 5, j - 1)
            THEN onQuoteAt(e, j, FirstIn(s, j + 1, Quote))
            ELSE onNoMatch

        onValueAt(e) ==
            IF /\ e >= p + 2
               /\ At(s, e + 1, <<"=">>)
               /\ e + 2 <= Len(s)
               /\ s[e + 2] \in Quote
               /\ At(s, e + 3, Open)
            THEN [onCloseAt(e, FirstIn(s, e + 6, {"}"}))
                    EXCEPT !.cg1 = SubSeq(s, p + 2, e)]
            ELSE onNoMatch
    IN
    IF At(ToLower(SubSeq(s, p, Min(p + 1, Len(s)))), 1, <<"o","n">>)
    THEN onValueAt(RunEnd(s, p + 2, WordChar))
    ELSE onNoMatch

\* the global replace from the position p on: the matches are taken from
\* left to right, the next one is the first at or after p
RECURSIVE onRewriteFrom(_, _)
onRewriteFrom(s, p) ==
    LET
        onRewriteMatch(q, m) ==
            SubSeq(s, p, q - 1)
            \o <<"o","n">> \o m.cg1 \o <<"=","\"">> \o m.cg2 \o <<"\"">>
            \o onRewriteFrom(s, m.last + 1)

        onRewriteNext(starts) ==
            IF starts = {} THEN From(s, p)
            ELSE onRewriteMatch(SetMin(starts), onMatchAt(s, SetMin(starts)))
    IN
    onRewriteNext({q \in p..Len(s) : onMatchAt(s, q).ok})

onRewrite(s) == onRewriteFrom(s, 1)

\* line 178: htmlMinifier.minify(content, config), the attributes of one
\* start tag t (from its "<" to its ">") from the position p on: [ok, out].
\* A value is written in double quotes, also when the source has it bare
\* or in single quotes (the values of the model hold no double quote); a
\* bare value is [^ \t\n\f\r"'=<>]+, and a "=" that no value follows is a
\* parse error, which minify throws.  The tag name and the attribute names
\* are written in lower case, one space before each attribute and none
\* around its "="; white space before the closing ">" or "/>" goes
\* (keepClosingSlash keeps the slash).
RECURSIVE minifyAttrs(_, _)
minifyAttrs(t, p) ==
    LET
        NotBare == Space \cup Quote \cup {"=", "<", ">"}

        parseError == [ok |-> FALSE, out |-> <<>>]

        tagCloseAt(r, n) ==
            SubSeq(r, 1, SetMax({0} \cup {k \in 1..(Len(r) - n) : r[k] \notin Space}))
            \o SubSeq(r, Len(r) - n + 1, Len(r))

        tagClose(r) ==
            IF At(r, Len(r) - 1, <<"/",">">>) THEN tagCloseAt(r, 2)
            ELSE tagCloseAt(r, 1)

        nameKept(h) ==
            {k \in 1..Len(h) :
                \/ h[k] \notin Space
                \/ /\ k = 1 \/ h[k - 1] \notin Space
                   /\ \E j \in (k + 1)..Len(h) : h[j] \notin Space}

        nameNth(h, kept, i) ==
            CHOOSE k \in kept : Cardinality({j \in kept : j < k}) = i - 1

        nameChars(h, kept) ==
            [i \in 1..Cardinality(kept) |->
                IF h[nameNth(h, kept, i)] \in Space THEN " "
                ELSE h[nameNth(h, kept, i)]]

        names(h) == ToLower(nameChars(h, nameKept(h)))

        attrJoin(eq, from, to, rest) ==
            [ok |-> rest.ok,
             out |-> names(SubSeq(t, p, eq - 1)) \o <<"=", "\"">>
                     \o SubSeq(t, from, to) \o <<"\"">> \o rest.out]

        attrQuoted(eq, v, c) ==
            IF c = 0 THEN parseError
            ELSE attrJoin(eq, v + 1, c - 1, minifyAttrs(t, c + 1))

        attrBare(eq, v, e) ==
            IF e < v THEN parseError
            ELSE attrJoin(eq, v, e, minifyAttrs(t, e + 1))

        attrValue(eq, v) ==
            IF v > Len(t) THEN parseError
            ELSE IF t[v] \in Quote
            THEN attrQuoted(eq, v, FirstIn(t, v + 1, {t[v]}))
            ELSE attrBare(eq, v, RunEndNot(t, v, NotBare))

        attrAt(eq) ==
            IF eq = 0 THEN [ok |-> TRUE, out |-> tagClose(names(From(t, p)))]
            ELSE attrValue(eq, RunEnd(t, eq + 1, Space) + 1)
    IN
    attrAt(FirstIn(t, p, {"="}))

\* minify from the position p on, [ok, out]: with collapseWhitespace and
\* conservativeCollapse a run of white space in a text becomes one space;
\* a tag (from the "<" at q to the next ">" at b) has its attributes
\* written anew.  The documents of the model hold no comment and no "<"
\* or ">" outside the tags.
RECURSIVE minifyFrom(_, _)
minifyFrom(s, p) ==
    LET
        Cat(head, m, rest) ==
            [ok |-> m.ok /\ rest.ok, out |-> head \o m.out \o rest.out]

        minifyTag(q, b) ==
            IF b = 0 THEN [ok |-> FALSE, out |-> <<>>]
            ELSE Cat(SubSeq(s, p, q - 1), minifyAttrs(SubSeq(s, q, b), 1),
                     minifyFrom(s, b + 1))

        minifySpace(q) ==
            Cat(SubSeq(s, p, q - 1), [ok |-> TRUE, out |-> <<" ">>],
                minifyFrom(s, RunEnd(s, q, Space) + 1))

        minifyNext(t, w) ==
            IF t = 0 /\ w = 0 THEN [ok |-> TRUE, out |-> From(s, p)]
            ELSE IF t # 0 /\ (w = 0 \/ t < w)
            THEN minifyTag(t, FirstIn(s, t, {">"}))
            ELSE minifySpace(w)
    IN
    minifyNext(FirstIn(s, p, {"<"}), FirstIn(s, p, Space))

minify(s) == minifyFrom(s, 1)

\* s.replace(/pat/g, rep) for a literal pat
RECURSIVE replaceAll(_, _, _)
replaceAll(s, pat, rep) ==
    LET
        replaceAllAt(i) ==
            IF i = 0 THEN s
            ELSE SubSeq(s, 1, i - 1) \o rep \o replaceAll(From(s, i + Len(pat)), pat, rep)
    IN
    replaceAllAt(FirstAt(s, 1, pat))

\* lines 179-180: a backslash before a quote is doubled
escapeQuotes(s) ==
    replaceAll(replaceAll(s, <<"\\","\"">>, <<"\\","\\","\"">>),
               <<"\\","'">>, <<"\\","\\","'">>)

-----------------------------------------------------------------------------
(* The generated template function (templateWrapStart / templateWrapEnd):  *)
(* the template literal, DOMParser, bindEvents.                            *)

\* the value of a JavaScript member expression on v, segment by segment:
\* [ok, v]; reading a property of undefined raises TypeError
RECURSIVE jsMember(_, _)
jsMember(v, segs) ==
    IF segs = <<>> THEN [ok |-> TRUE, v |-> v]
    ELSE IF ~NotNull(v) THEN [ok |-> FALSE, v |-> Undef]
    ELSE jsMember(GetProp(v, Head(segs)), Tail(segs))

\* function(props){return <the literal>}.call(p, p): [ok, out]; every
\* ${expr} of the literal, s[i..j], gives String(expr)
RECURSIVE evalLiteral(_, _, _)
evalLiteral(s, pos, p) ==
    LET
        \* an expression of the template literal, evaluated with this = props = p:
        \* this.path or props.path; a bare identifier raises ReferenceError
        jsExprSegs(segs) ==
            IF Len(segs) >= 2 /\ Head(segs) \in {<<"t","h","i","s">>,
                                                  <<"p","r","o","p","s">>}
            THEN jsMember(p, Tail(segs))
            ELSE [ok |-> FALSE, v |-> Undef]

        jsExpr(expr) == jsExprSegs(SplitDot(Trim(expr)))

        evalJoin(head, rest) ==
            [ok |-> rest.ok, out |-> head \o rest.out]

        evalExpr(i, j, e) ==
            IF ~e.ok THEN [ok |-> FALSE, out |-> <<>>]
            ELSE evalJoin(SubSeq(s, pos, i - 1) \o ToStr(e.v),
                          evalLiteral(s, j + 1, p))

        evalClose(i, j) ==
            IF j = 0 THEN [ok |-> FALSE, out |-> <<>>]
            ELSE evalExpr(i, j, jsExpr(SubSeq(s, i + 2, j - 1)))

        evalOpen(i) ==
            IF i = 0 THEN [ok |-> TRUE, out |-> From(s, pos)]
            ELSE evalClose(i, FirstIn(s, i + 2, {"}"}))
    IN
    evalOpen(FirstAt(s, pos, Open))

\* the attributes of a start tag from the position i on: [attrs, next],
\* next the position after the tag's ">".  A name is lower-cased, a second
\* attribute of the same name is dropped.
RECURSIVE tagAttrs(_, _, _)
tagAttrs(s, i, attrs) ==
    LET
        addAttr(name, value) ==
            IF \E k \in 1..Len(attrs) : attrs[k][1] = name THEN attrs
            ELSE Append(attrs, <<name, value>>)

        tagAttrQuoted(name, v, q) ==
            IF q = 0 THEN [attrs |-> attrs, next |-> Len(s) + 1]
            ELSE tagAttrs(s, q + 1, addAttr(name, SubSeq(s, v + 1, q - 1)))

        tagAttrUnquoted(name, v, e) ==
            tagAttrs(s, e + 1, addAttr(name, SubSeq(s, v, e)))

        tagAttrValue(name, v) ==
            IF v > Len(s) THEN [attrs |-> attrs, next |-> Len(s) + 1]
            ELSE IF s[v] \in Quote
            THEN tagAttrQuoted(name, v, FirstIn(s, v + 1, {s[v]}))
            ELSE tagAttrUnquoted(name, v,
                                 RunEndNot(s, v, Space \cup {">"}))

        tagAttrEq(name, e, w) ==
            IF w + 1 <= Len(s) /\ s[w + 1] = "="
            THEN tagAttrValue(name, RunEnd(s, w + 2, Space) + 1)
            ELSE tagAttrs(s, e + 1, addAttr(name, <<>>))

        tagAttrName(e) ==
            tagAttrEq(ToLower(SubSeq(s, i, e)), e, RunEnd(s, e + 1, Space))
    IN
    IF i > Len(s) THEN [attrs |-> attrs, next |-> Len(s) + 1]
    ELSE IF s[i] = ">" THEN [attrs |-> attrs, next |-> i + 1]
    ELSE IF s[i] \in Space \cup {"/"} THEN tagAttrs(s, i + 1, attrs)
    ELSE tagAttrName(RunEndNot(s, i + 1, Space \cup {"=", ">", "/"}))

\* the tree builder from the position i on: d is [nodes, stack, body], stack
\* the indices of the open elements, body TRUE once the body has content
RECURSIVE parseHTMLFrom(_, _, _)
parseHTMLFrom(s, i, d) ==
    LET
        parseText(q) ==
            LET
                TextNode(text, parent) ==
                    [kind |-> "text", tag |-> <<>>, attrs |-> <<>>, parent |-> parent,
                     text |-> text, listeners |-> <<>>]

                domTextParent(text) ==
                    IF d.stack # <<>> THEN d.stack[Len(d.stack)]
                    ELSE IF ~d.body /\ \A k \in 1..Len(text) : text[k] \in Space THEN -1
                    ELSE 0

                domText(text, parent) ==
                    [nodes |-> Append(d.nodes, TextNode(text, parent)),
                     stack |-> d.stack,
                     body |-> d.body \/ parent = 0]
            IN
            IF q = 0 THEN domText(From(s, i), domTextParent(From(s, i))).nodes
            ELSE parseHTMLFrom(s, q,
                               domText(SubSeq(s, i, q - 1),
                                       domTextParent(SubSeq(s, i, q - 1))))

        HeadTags == {<<"s","t","y","l","e">>, <<"l","i","n","k">>,
                     <<"m","e","t","a">>, <<"t","i","t","l","e">>}

        VoidTags == {<<"i","m","g">>, <<"l","i","n","k">>, <<"b","r">>,
                     <<"m","e","t","a">>, <<"i","n","p","u","t">>}

        ElNode(tag, attrs, parent) ==
            [kind |-> "el", tag |-> tag, attrs |-> attrs, parent |-> parent,
             text |-> <<>>, listeners |-> <<>>]

        domParent(tag) ==
            IF d.stack # <<>> THEN d.stack[Len(d.stack)]
            ELSE IF ~d.body /\ tag \in HeadTags THEN -1
            ELSE 0

        domOpen(tag, attrs, parent) ==
            [nodes |-> Append(d.nodes, ElNode(tag, attrs, parent)),
             stack |-> IF tag \in VoidTags THEN d.stack
                       ELSE Append(d.stack, Len(d.nodes) + 1),
             body |-> d.body \/ parent = 0]

        \* an end tag closes the innermost open element of its name, if any
        domClose(tag) ==
            IF \E k \in 1..Len(d.stack) : d.nodes[d.stack[k]].tag = tag
            THEN [d EXCEPT !.stack =
                     SubSeq(@, 1, SetMax({k \in 1..Len(d.stack) :
                                             d.nodes[d.stack[k]].tag = tag}) - 1)]
            ELSE d

        IsLetter(k) == k <= Len(s) /\ s[k] \in Lower \cup Upper

        parseStartTag(tag, a) ==
            parseHTMLFrom(s, a.next, domOpen(tag, a.attrs, domParent(tag)))

        parseStartName(e) ==
            parseStartTag(ToLower(SubSeq(s, i + 1, e)),
                          tagAttrs(s, e + 1, <<>>))

        parseEndTag(e, g) ==
            IF g = 0 THEN d.nodes
            ELSE parseHTMLFrom(s, g + 1, domClose(ToLower(SubSeq(s, i + 2, e))))

        parseEndName(e) ==
            parseEndTag(e, FirstIn(s, e + 1, {">"}))

        \* the content of a style element is text up to its end tag
        parseRawText ==
            parseText(FirstAt(ToLower(s), i, <<"<", "/", "s", "t", "y", "l", "e">>))
    IN
    IF i > Len(s) THEN d.nodes
    ELSE IF /\ d.stack # <<>>
            /\ d.nodes[d.stack[Len(d.stack)]].tag = <<"s","t","y","l","e">>
            /\ ~At(ToLower(s), i, <<"<","/","s","t","y","l","e">>)
    THEN parseRawText
    ELSE IF At(s, i, <<"<","/">>) /\ IsLetter(i + 2)
    THEN parseEndName(RunEndNot(s, i + 2, Space \cup {">", "/"}))
    ELSE IF At(s, i, <<"<">>) /\ IsLetter(i + 1)
    THEN parseStartName(RunEndNot(s, i + 1, Space \cup {">", "/"}))
    ELSE parseText(FirstIn(s, i + 1, {"<"}))

\* DOMParser.parseFromString(html, 'text/html').  The document is a sequence
\* of nodes in document order:
\*   kind: "el" | "text";  tag;  attrs: a sequence of <<name, value>>;
\*   parent: the index of the parent node, 0 for body, -1 for head;
\*   text: the characters of a text node;
\*   listeners: what addEventListener added, [event, fn, ctx]
\* The markup of the model holds elements, attributes and texts: no
\* comments, no entities, no tags closed by implication.
parseFromString(html) ==
    parseHTMLFrom(html, 1, [nodes |-> <<>>, stack |-> <<>>, body |-> FALSE])

\* head.children and body.childNodes, as indices in document order
RECURSIVE Select(_, _, _)
Select(nodes, k, parent) ==
    IF k > Len(nodes) THEN <<>>
    ELSE IF nodes[k].parent = parent
    THEN <<k>> \o Select(nodes, k + 1, parent)
    ELSE Select(nodes, k + 1, parent)

headChildren(nodes) ==
    SelectSeq(Select(nodes, 1, -1), LAMBDA k : nodes[k].kind = "el")

bodyChildNodes(nodes) == Select(nodes, 1, 0)

\* the node k lies inside body
RECURSIVE InBody(_, _)
InBody(nodes, k) ==
    IF nodes[k].parent = 0 THEN TRUE
    ELSE IF nodes[k].parent = -1 THEN FALSE
    ELSE InBody(nodes, nodes[k].parent)

startsWithOn(name) == At(name, 1, <<"o","n">>)

\* bindEvents(root, context) with root = body.
\* The work list: for each element of root.querySelectorAll('*'), in document
\* order, each attribute of Array.from(el.attributes) whose name starts with
\* on, as <<node, name, value>>
RECURSIVE onAttrs(_, _, _)
onAttrs(k, attrs, i) ==
    IF i > Len(attrs) THEN <<>>
    ELSE IF startsWithOn(attrs[i][1])
    THEN << <<k, attrs[i][1], attrs[i][2]>> >> \o onAttrs(k, attrs, i + 1)
    ELSE onAttrs(k, attrs, i + 1)

RECURSIVE bindWork(_, _)
bindWork(nodes, k) ==
    IF k > Len(nodes) THEN <<>>
    ELSE IF nodes[k].kind = "el" /\ InBody(nodes, k)
    THEN onAttrs(k, nodes[k].attrs, 1) \o bindWork(nodes, k + 1)
    ELSE bindWork(nodes, k + 1)

\* b is [nodes, li, thrown]: the document, keyRegexp.lastIndex and whether
\* the call has raised; r is the outcome of template(attribute.value, ctx),
\* a call that does not return raises RangeError out of bindEvents
RECURSIVE bindRun(_, _, _)
bindRun(work, b, ctx) ==
    LET
        \* lines 1052-1062 of the callback: f is context[fnOrName]; template
        \* returns a string, so that the listener is added only when f is a function
        bindAttach(w, f, li) ==
            [nodes |-> [b.nodes EXCEPT ![w[1]] =
                          [@ EXCEPT
                             !.listeners =
                                IF f.t = "fn"
                                THEN Append(@, [event |-> From(w[2], 3),
                                                fn |-> f.s, ctx |-> ctx])
                                ELSE @,
                             !.attrs = SelectSeq(@, LAMBDA a : a[1] # w[2])]],
             li |-> li,
             thrown |-> FALSE]

        bindOne(r) ==
            IF r.end # "return" THEN [b EXCEPT !.li = r.li, !.thrown = TRUE]
            ELSE bindRun(Tail(work),
                         bindAttach(Head(work), GetProp(ctx, r.out), r.li),
                         ctx)
    IN
    IF work = <<>> THEN b
    ELSE bindOne(template(Head(work)[3], ctx, b.li))

bindEvents(nodes, ctx, li) ==
    bindRun(bindWork(nodes, 1),
            [nodes |-> nodes, li |-> li, thrown |-> FALSE], ctx)

\* lines 175-176: [...content.matchAll(linkregex)] with linkregex =
\* /^\s*<link.+href="(.+?s*css)".*>$/gmi, the matches from the position p
\* on, each [all, href] (m[0] and m[1]); low is s in lower case (the i flag).
\* A match starts at the start of a line (q), crosses white space up to
\* "<link" (at k) and ends with the ">" that ends that line (at e); the
\* greedy .+ takes the last href=" of the line that a css" follows, the lazy
\* group the first css" after it.
RECURSIVE linkregexFrom(_, _, _)
linkregexFrom(s, low, p) ==
    LET
        cssEnds(h, e) ==
            {j \in (h + 9)..(e - 2) :
                At(low, j - 2, <<"c","s","s">>) /\ s[j + 1] = "\""}

        hrefs(k, e) ==
            {h \in (k + 6)..e :
                At(low, h, <<"h","r","e","f","=","\"">>) /\ cssEnds(h, e) # {}}

        lineEnd(n) == IF n = 0 THEN Len(s) ELSE n - 1

        linkOn(k, e) ==
            /\ At(low, k, <<"<","l","i","n","k">>)
            /\ s[e] = ">"
            /\ hrefs(k, e) # {}

        linkAt(k) == linkOn(k, lineEnd(FirstIn(s, k, {"\n"})))

        linkStarts ==
            {q \in p..Len(s) :
                /\ q = 1 \/ s[q - 1] = "\n"
                /\ linkAt(RunEnd(s, q, Space) + 1)}

        linkGroup(h, e) == SubSeq(s, h + 6, SetMin(cssEnds(h, e)))

        linkMatch(q, k, e) ==
            << [all |-> SubSeq(s, q, e),
                href |-> linkGroup(SetMax(hrefs(k, e)), e)] >>
            \o linkregexFrom(s, low, e + 1)

        linkLine(q, k) == linkMatch(q, k, lineEnd(FirstIn(s, k, {"\n"})))

        linkNext(starts) ==
            IF starts = {} THEN <<>>
            ELSE linkLine(SetMin(starts), RunEnd(s, SetMin(starts), Space) + 1)
    IN
    linkNext(linkStarts)

\* lines 181-191: imports.map(callback), c is [content, css, rendered]:
\* the content, the texts the callback returned so far and the files
\* renderSync was called with.  files is the file system: [path, css], css
\* what node-sass renders for the file.
RECURSIVE importStyles(_, _, _)
importStyles(c, imports, files) ==
    LET
        \* path.resolve(this.context || '', m[1]), this.context being /src
        pathResolve(href) ==
            IF At(href, 1, <<"/">>) THEN href
            ELSE IF At(href, 1, <<".","/">>) THEN <<"/","s","r","c","/">> \o From(href, 3)
            ELSE <<"/","s","r","c","/">> \o href

        \* content.replace(m[0], ''): the first occurrence, at i, goes
        replaceFirstAt(text, pat, i) ==
            IF i = 0 THEN text
            ELSE SubSeq(text, 1, i - 1) \o From(text, i + Len(pat))

        importFile(m, filePath) ==
            IF \E f \in files : f.path = filePath
            THEN [content |-> replaceFirstAt(c.content, m.all,
                                             FirstAt(c.content, 1, m.all)),
                  css |-> Append(c.css,
                                 (CHOOSE f \in files : f.path = filePath).css),
                  rendered |-> Append(c.rendered, filePath)]
            ELSE [c EXCEPT !.css = Append(@, <<>>)]
    IN
    IF imports = <<>> THEN c
    ELSE importStyles(importFile(Head(imports), pathResolve(Head(imports).href)),
                      Tail(imports), files)

\* htmlLoader(content) with config.attributes = attributes, the files of the
\* file system and the draws of Math.random: what the call leaves behind,
\*   end: "return", or "throw" when the minifier throws
\*   replaced, done, data: content, the links replaced and data after line 174
\*   imports: the matches of linkregex (line 176)
\*   rewritten: content after line 177, what the minifier is called with
\*   minified: content after line 180
\*   rendered: the files renderSync was called with, in order
\*   style, markup: the text inside the style element, and content after it
\*   out: the text of the template literal the generated function returns
htmlLoader(content, attributes, files, rnds) ==
    LET
        \* Array.prototype.join('\n')
        JoinLines(texts) ==
            Join([k \in 1..Len(texts) |->
                    IF k = 1 THEN texts[k] ELSE <<"\n">> \o texts[k]])

        loaderEnd(r, imports, rewritten, m, st) ==
            [end |-> "return",
             replaced |-> r.content, done |-> r.done, data |-> r.data,
             imports |-> imports, rewritten |-> rewritten,
             minified |-> escapeQuotes(m.out),
             rendered |-> st.rendered,
             style |-> JoinLines(st.css), markup |-> st.content,
             out |-> <<"<","s","t","y","l","e",">">> \o JoinLines(st.css) \o <<"<","/","s","t","y","l","e",">","\n">>
                     \o st.content]

        loaderThrow(r, imports, rewritten) ==
            [end |-> "throw",
             replaced |-> r.content, done |-> r.done, data |-> r.data,
             imports |-> imports, rewritten |-> rewritten,
             minified |-> <<>>, rendered |-> <<>>, style |-> <<>>,
             markup |-> <<>>, out |-> <<>>]

        loaderMinified(r, imports, rewritten, m) ==
            IF ~m.ok THEN loaderThrow(r, imports, rewritten)
            ELSE loaderEnd(r, imports, rewritten, m,
                           importStyles([content |-> escapeQuotes(m.out),
                                         css |-> <<>>, rendered |-> <<>>],
                                        imports, files))

        loaderRewritten(r, imports, rewritten) ==
            loaderMinified(r, imports, rewritten, minify(rewritten))

        loaderReplaced(r) ==
            loaderRewritten(r, linkregexFrom(r.content, ToLower(r.content), 1),
                            onRewrite(r.content))
    IN
    loaderReplaced(replaceLinks(content, attrParse(content, attributes), rnds))

-----------------------------------------------------------------------------
(* Inputs of the scanner: markup written from pieces, so that the offsets  *)
(* of the attribute value are known.                                       *)

sImg  == <<"i","m","g">>

sSrc  == <<"s","r","c">>

sHref == <<"h","r","e","f">>

\* pre <tag name=QvalueQ post>; region names the region of the markup the
\* tag is written in, "none" for a tag of the document itself; a document
\* of the region "raw" is the text pre as it is
ScanMarkup(d) ==
    IF d.region = "raw" THEN d.pre
    ELSE
    d.pre \o <<"<">> \o d.tag \o <<" ">> \o d.name \o <<"=">> \o d.quote
    \o d.value \o d.quote \o d.post \o <<">">>

ScanDocs ==
    LET
        sA == <<"a">>

        ScanPre == {<<>>, <<"<","p",">">>, <<"<","!","-","-","c","-","-",">">>}

        ScanPost == {<<>>, <<" ","a","l","t","=","x">>}

        ScanQuotes == {<<>>, <<"'">>, <<"\"">>}

        ScanValues == {<<"a",".","p","n","g">>}

        \* a value that needs quotes
        ScanQuotedValues == {<<"a"," ","b">>}
    IN
    {d \in [pre : ScanPre, tag : {sImg, sA}, name : {sSrc, sHref},
            quote : ScanQuotes, value : ScanValues \cup ScanQuotedValues,
            post : ScanPost, region : {"none"}] :
        d.value \in ScanQuotedValues => d.quote # <<>>}

\* the same tag written inside a region the outside state is meant to skip:
\* the region opens with pre and ends with post and the ">" of the markup
\*   <!--c <img src=a.png>-->             a comment on one line
\*   <!--c\n<img src=a.png>\n-->          a comment on three lines
\*   <![CDATA[<img src=a.png>]]>          a CDATA section
\*   <![CDATA[a>b<img src=a.png>]]>       a CDATA section that holds a ">"
\*   <!DOCTYPE <img src=a.png>            a doctype
\*   <?x <img src=a.png ?>                a processing instruction
\*   </a <img src=a.png>                  a closing tag
ScanRegions ==
    {[region |-> "comment", pre |-> <<"<","!","-","-","c"," ">>,
      post |-> <<">","-","-">>],
     [region |-> "lines", pre |-> <<"<","!","-","-","c","\n">>,
      post |-> <<">","\n","-","-">>],
     [region |-> "cdata", pre |-> <<"<","!","[","C","D","A","T","A","[">>,
      post |-> <<">","]","]">>],
     [region |-> "cdataGt",
      pre |-> <<"<","!","[","C","D","A","T","A","[","a",">","b">>,
      post |-> <<">","]","]">>],
     [region |-> "doctype",
      pre |-> <<"<","!","D","O","C","T","Y","P","E"," ">>, post |-> <<>>],
     [region |-> "pi", pre |-> <<"<","?","x"," ">>, post |-> <<" ","?">>],
     [region |-> "close", pre |-> <<"<","/","a"," ">>, post |-> <<>>]}

RegionDocs ==
    {[pre |-> r.pre, tag |-> sImg, name |-> n, quote |-> <<>>,
      value |-> <<"a",".","p","n","g">>, post |-> r.post,
      region |-> r.region] : r \in ScanRegions, n \in {sSrc, sHref}}

ScanAttributes == {{<<":">> \o sSrc}, {sImg \o <<":">> \o sSrc, <<":">> \o sHref}}

\* ill-formed markup: tags and quoted values that are not closed, taken as
\* they are
\*   ""   <   <div   <div    <img src   <img src=   <img src="a.png
\*   <img src='a b   <img src="a.png><a href='x   <!--c   </a   <p>a
RawDocs ==
    LET
        Raw(text) ==
            [pre |-> text, tag |-> <<>>, name |-> <<>>, quote |-> <<>>,
             value |-> <<>>, post |-> <<>>, region |-> "raw"]

        OpenImg == <<"<","i","m","g"," ","s","r","c">>
    IN
    {Raw(<<>>), Raw(<<"<">>), Raw(<<"<","d","i","v">>),
     Raw(<<"<","d","i","v"," ">>), Raw(OpenImg), Raw(OpenImg \o <<"=">>),
     Raw(OpenImg \o <<"=","\"","a",".","p","n","g">>),
     Raw(OpenImg \o <<"=","'","a"," ","b">>),
     Raw(OpenImg \o <<"=","\"","a",".","p","n","g","\"",">">>
         \o <<"<","a"," ","h","r","e","f","=","'","x">>),
     Raw(<<"<","!","-","-","c">>), Raw(<<"<","/","a">>),
     Raw(<<"<","p",">","a">>)}

NoScanDoc == [pre |-> <<>>, tag |-> <<>>, name |-> <<>>, quote |-> <<>>,
              value |-> <<>>, post |-> <<>>, region |-> "none"]

-----------------------------------------------------------------------------
(* Inputs of the loader and of the template function.                      *)

Attr(name, quote, value) ==
    <<" ">> \o name \o <<"=">> \o quote \o value \o quote

El(tag, attrs, inner) ==
    <<"<">> \o tag \o attrs \o <<">">> \o inner \o <<"<","/">> \o tag \o <<">">>

sH3      == <<"h","3">>

sDiv     == <<"d","i","v">>

sButton  == <<"b","u","t","t","o","n">>

sOnclick == <<"o","n","c","l","i","c","k">>
sOnfocus == <<"o","n","f","o","c","u","s">>

sClick   == <<"c","l","i","c","k">>

sTitle   == <<"t","i","t","l","e">>

sHi      == <<"H","i">>

sItemClick == <<"i","t","e","m","C","l","i","c","k">>

sSomeObj   == <<"s","o","m","e","O","b","j">>

DQ == <<"\"">>

\* the documents given to the loader: src, and path, the path its event
\* attribute names (empty when it has no event attribute)
\*   <h3>${this.title}</h3>
docTitle ==
    [src |-> El(sH3, <<>>, Mk(ThisDot(sTitle))), path |-> <<>>]

CompileDocs ==
    LET
        SQ == <<"'">>

        \*   <button onclick="${this.go}">x</button>
        docGo ==
            [src |-> El(sButton, Attr(sOnclick, DQ, Mk(ThisDot(kGo))), sX),
             path |-> kGo]

        \*   <button onclick='${props.go}'>x</button>
        docGoProps ==
            [src |-> El(sButton, Attr(sOnclick, SQ, Mk(PropsDot(kGo))), sX),
             path |-> kGo]

        \*   <h3>${props.title}</h3><div><button onclick="${this.go}">a  b</button></div>
        docBoth ==
            [src |-> El(sH3, <<>>, Mk(PropsDot(sTitle)))
                     \o El(sDiv, <<>>,
                           El(sButton, Attr(sOnclick, DQ, Mk(ThisDot(kGo))),
                              <<"a"," "," ","b">>)),
             path |-> kGo]
    IN
    {docTitle, docGo, docGoProps, docBoth}

BindDocs ==
    LET
        sNope == <<"n","o","p","e">>

        \* markup bound at run time, without the loader: the documented forms
        \*   <button onclick="itemClick">x</button>
        docName ==
            [src |-> El(sButton, Attr(sOnclick, DQ, sItemClick), sX),
             path |-> sItemClick]

        \*   <button onclick="this.itemClick">x</button>
        docThis ==
            [src |-> El(sButton, Attr(sOnclick, DQ, ThisDot(sItemClick)), sX),
             path |-> sItemClick]

        \*   <button onclick="this.someObj.itemClick">x</button>
        docMember ==
            [src |-> El(sButton,
                        Attr(sOnclick, DQ, ThisDot(Dot(sSomeObj, sItemClick))), sX),
             path |-> Dot(sSomeObj, sItemClick)]

        \*   <button onclick="nope" onfocus="itemClick">x</button>
        docMissing ==
            [src |-> El(sButton,
                        Attr(sOnclick, DQ, sNope) \o Attr(sOnfocus, DQ, sItemClick),
                        sX),
             path |-> <<>>]

        \*   <div onclick="itemClick"><button onclick="${a.${b}}" onfocus="itemClick">x</button></div>
        docNested ==
            [src |-> El(sDiv, Attr(sOnclick, DQ, sItemClick),
                        El(sButton,
                           Attr(sOnclick, DQ, Mk(Dot(kA, Mk(kB))))
                           \o Attr(sOnfocus, DQ, sItemClick),
                           sX)),
             path |-> <<>>]
    IN
    {docName, docThis, docMember, docMissing, docNested}

NoDoc == [src |-> <<>>, path |-> <<>>]

InvokeProps ==
    LET
        \* {title: "Hi", go: function go}
        propsFull == Obj({<<sTitle, Str(sHi)>>, <<kGo, Fn(kGo)>>})

        \* {title: "Hi"}
        propsTitle == Obj({<<sTitle, Str(sHi)>>})
    IN
    {propsFull, propsTitle, ctxEmpty}

BindContexts ==
    LET
        sMemberClick == <<"m","e","m","b","e","r","C","l","i","c","k">>

        \* {itemClick: function itemClick, someObj: {itemClick: function memberClick}}
        ctxFns == Obj({<<sItemClick, Fn(sItemClick)>>,
                       <<sSomeObj, Obj({<<sItemClick, Fn(sMemberClick)>>})>>})

        \* {itemClick: function itemClick, b: "${b}"}
        ctxFnLoop == Obj({<<sItemClick, Fn(sItemClick)>>, <<kB, Str(Mk(kB))>>})
    IN
    {ctxFns, ctxFnLoop}

\* the documents the loader is called with on its own
LoaderDocs ==
    {
      \*   <h3>${this.title}</h3>
      <<"<","h","3",">","$","{","t","h","i","s",".","t","i","t","l","e","}","<","/","h","3",">">>,
      \*   <img src=a.png>
      <<"<","i","m","g"," ","s","r","c","=","a",".","p","n","g",">">>,
      \*   <img src="a.png" />
      <<"<","i","m","g"," ","s","r","c","=","\"","a",".","p","n","g","\""," ","/",">">>,
      \*   <img src="a.png" /><img src="b.png#h" />
      <<"<","i","m","g"," ","s","r","c","=","\"","a",".","p","n","g","\""," ","/",">","<","i","m","g"," ","s","r","c","=","\"","b",".","p","n","g","#","h","\""," ","/",">">>,
      \*   <a href=mailto:x@y.z>m</a><img src=a.png />
      <<"<","a"," ","h","r","e","f","=","m","a","i","l","t","o",":","x","@","y",".","z",">","m","<","/","a",">","<","i","m","g"," ","s","r","c","=","a",".","p","n","g"," ","/",">">>,
      \*   <img src=http://h/a.png /><img src=b.png /><p>t</p><img src=c.png />
      <<"<","i","m","g"," ","s","r","c","=","h","t","t","p",":","/","/","h","/","a",".","p","n","g"," ","/",">","<","i","m","g"," ","s","r","c","=","b",".","p","n","g"," ","/",">","<","p",">","t","<","/","p",">","<","i","m","g"," ","s","r","c","=","c",".","p","n","g"," ","/",">">>,
      \*   <button onclick="${this.itemClick}">x</button>
      <<"<","b","u","t","t","o","n"," ","o","n","c","l","i","c","k","=","\"","$","{","t","h","i","s",".","i","t","e","m","C","l","i","c","k","}","\"",">","x","<","/","b","u","t","t","o","n",">">>,
      \*   <button onclick='${this.itemClick}'>x</button>
      <<"<","b","u","t","t","o","n"," ","o","n","c","l","i","c","k","=","'","$","{","t","h","i","s",".","i","t","e","m","C","l","i","c","k","}","'",">","x","<","/","b","u","t","t","o","n",">">>,
      \*   <button onClick="${props.go}" title="t">x</button>
      <<"<","b","u","t","t","o","n"," ","o","n","C","l","i","c","k","=","\"","$","{","p","r","o","p","s",".","g","o","}","\""," ","t","i","t","l","e","=","\"","t","\"",">","x","<","/","b","u","t","t","o","n",">">>,
      \*   <button ONCLICK='${this.some_obj.go1}'
      \*    onfocus="${props.go}">x</button>
      <<"<","b","u","t","t","o","n"," ","O","N","C","L","I","C","K","=","'","$","{","t","h","i","s",".","s","o","m","e","_","o","b","j",".","g","o","1","}","'","\n"," ","o","n","f","o","c","u","s","=","\"","$","{","p","r","o","p","s",".","g","o","}","\"",">","x","<","/","b","u","t","t","o","n",">">>,
      \*   <link rel="stylesheet" href="./a.css">
      \*   <h3>${this.title}</h3>
      <<"<","l","i","n","k"," ","r","e","l","=","\"","s","t","y","l","e","s","h","e","e","t","\""," ","h","r","e","f","=","\"",".","/","a",".","c","s","s","\"",">","\n","<","h","3",">","$","{","t","h","i","s",".","t","i","t","l","e","}","<","/","h","3",">">>,
      \*   <h3>t</h3>
      \*     <link rel="stylesheet" href="a.css">
      <<"<","h","3",">","t","<","/","h","3",">","\n"," "," ","<","l","i","n","k"," ","r","e","l","=","\"","s","t","y","l","e","s","h","e","e","t","\""," ","h","r","e","f","=","\"","a",".","c","s","s","\"",">">>,
      \*   <link rel="stylesheet" href="a.css">
      \*   <link rel="stylesheet" href="b.css">
      \*   <h3>t</h3>
      <<"<","l","i","n","k"," ","r","e","l","=","\"","s","t","y","l","e","s","h","e","e","t","\""," ","h","r","e","f","=","\"","a",".","c","s","s","\"",">","\n","<","l","i","n","k"," ","r","e","l","=","\"","s","t","y","l","e","s","h","e","e","t","\""," ","h","r","e","f","=","\"","b",".","c","s","s","\"",">","\n","<","h","3",">","t","<","/","h","3",">">>,
      \*   <link rel="stylesheet" href="a.css"><h3>t</h3>
      <<"<","l","i","n","k"," ","r","e","l","=","\"","s","t","y","l","e","s","h","e","e","t","\""," ","h","r","e","f","=","\"","a",".","c","s","s","\"",">","<","h","3",">","t","<","/","h","3",">">>,
      \*   <p content="${this.x}" onclick="go">t</p>
      <<"<","p"," ","c","o","n","t","e","n","t","=","\"","$","{","t","h","i","s",".","x","}","\""," ","o","n","c","l","i","c","k","=","\"","g","o","\"",">","t","<","/","p",">">>
    }

\* config.attributes as the loader is configured: the default, and lists that
\* name the attributes of references
LoaderAttributes == {{}} \cup ScanAttributes

\* the file systems: no style sheet, a.css, a.css and b.css beside the
\* document (in /src), css what node-sass renders for the file
LoaderFiles ==
    LET
        fileA == [path |-> <<"/","s","r","c","/","a",".","c","s","s">>, css |-> <<".","a","{","}">>]

        fileB == [path |-> <<"/","s","r","c","/","b",".","c","s","s">>, css |-> <<".","b","{","}">>]
    IN
    {{}, {fileA}, {fileA, fileB}}

\* the draws of Math.random: for each new ident the text of
\* Math.random() + Math.random(); the second list draws the same text twice
LoaderRnds ==
    {<<<<"0",".","1","0",".","2">>, <<"0",".","3","0",".","4">>, <<"0",".","5","0",".","6">>>>,
     <<<<"0",".","1","0",".","2">>, <<"0",".","1","0",".","2">>, <<"0",".","3","0",".","4">>>>}

\* config.attributes of getLoaderConfig
DefaultAttributes == {}

MaxBinds == 2
MaxDispatches == 1

Events ==
    LET
        sFocus == <<"f","o","c","u","s">>
    IN
    {sClick, sFocus}

-----------------------------------------------------------------------------
(* The operations: each call is synchronous, one step.                     *)

(* setup-connect.js: the objects a root or a context can be.  A node is   *)
(* named by a string; a mount target is <<"shadow", host, 0>>, the open   *)
(* shadow root of a host, or <<"div", "", n>>, the n-th div created.      *)

\* the hosts whose shadow root is open
OpenHosts == {"hostA", "hostB"}

\* x instanceof HTMLElement: hostClosed has a closed shadow root; "props"
\* is an object that is no element
ConnectElements == OpenHosts \cup {"hostClosed"}





\* the divs document.createElement may create in one behaviour
MaxDivs == 2

\* the variant of line 3 that prefers the context to the root it is given
connectRootContextFirst(root, context) ==
    IF context \in ConnectElements THEN context ELSE root

\* line 3: if (!root && context instanceof HTMLElement) root = context
connectRoot(root, context) ==
    IF root = "undefined" /\ context \in ConnectElements THEN context ELSE root

\* lines 4-8: the open shadow root of root, or a new div (the next one
\* after the divs created so far)
connectTarget(root, divs) ==
    LET
        \* element.shadowRoot: null when the shadow root is closed or missing
        shadowRoot(x) ==
            IF x \in OpenHosts THEN [mode |-> "open", host |-> x]
            ELSE [mode |-> "null", host |-> ""]
    IN
    IF /\ root \in ConnectElements
       /\ shadowRoot(root).mode # "null"
       /\ shadowRoot(root).mode = "open"
    THEN <<"shadow", shadowRoot(root).host, 0>>
    ELSE <<"div", "", Len(divs) + 1>>

\* lines 9-12 on the child lists c = [shadow, divs]: root.innerHTML = ''
\* empties the target (a new div is empty), then each appendChild takes the
\* node out of the parent it has and makes it the last child of the target
RECURSIVE connectAppend(_, _, _)
connectAppend(c, target, nodes) ==
    LET
        Without(children, node) == SelectSeq(children, LAMBDA n : n # node)

        appendChild(node) ==
            [shadow |-> [h \in DOMAIN c.shadow |->
                            IF target = <<"shadow", h, 0>>
                            THEN Append(Without(c.shadow[h], node), node)
                            ELSE Without(c.shadow[h], node)],
             divs |-> [k \in DOMAIN c.divs |->
                            IF target = <<"div", "", k>>
                            THEN Append(Without(c.divs[k], node), node)
                            ELSE Without(c.divs[k], node)]]
    IN
    IF nodes = <<>> THEN c
    ELSE connectAppend(appendChild(Head(nodes)), target, Tail(nodes))

\* lines 9-12 from the child lists before the call
connectFill(shadow, divs, target, nodes) ==
    connectAppend([shadow |-> [h \in DOMAIN shadow |->
                                  IF target = <<"shadow", h, 0>> THEN <<>>
                                  ELSE shadow[h]],
                   divs |-> IF target[1] = "div" THEN Append(divs, <<>>)
                            ELSE divs],
                  target, nodes)

(* event-map.js and data-manager.js.  An object or a Map is a function   *)
(* from its keys; a value is a string naming it: "undefined", "false",   *)
(* "#0" and "#1" the numbers, every other string itself ("" the empty    *)
(* string).  No value of the model is an array, so that set compares     *)
(* with !== (line 64).                                                    *)

\* !value
Falsy(value) == value \in {"undefined", "false", "#0", ""}

\* obj[key]
Prop(obj, key) == IF key \in DOMAIN obj THEN obj[key] ELSE "undefined"



StoreEvents == {"clear", "delete", "set"}

\* st is the EventMap, [map, cache, subs, calls]: _map, _cache,
\* _subscribers and the calls of callbacks made so far, [sub, event,
\* newState, oldState]
\* lines 44-46: destroy() of the object on(event, callback) returned:
\* subs.splice(subs.indexOf(callback), 1), and splice(-1, 1) takes the last
destroy(st, event, callback) ==
    LET
        indexOf(subs) ==
            IF \E i \in 1..Len(subs) : subs[i] = callback
            THEN SetMin({i \in 1..Len(subs) : subs[i] = callback})
            ELSE Len(subs)

        splice(subs, at) ==
            [i \in 1..(Len(subs) - (IF at = 0 THEN 0 ELSE 1)) |->
                IF i < at THEN subs[i] ELSE subs[i + 1]]
    IN
    [st EXCEPT !.subs[event] = splice(@, indexOf(@))]

\* lines 16-18: _notify(event, oldState).  forEach reads the list as it is
\* at each turn: the i-th turn calls the subscriber that is the i-th then.
\* The callback "d" is one that calls destroy() of its own subscription
\* when it is notified; every other callback leaves the EventMap alone.
notify(st, event, oldState) ==
    LET
        called(m, sub) ==
            [(IF sub = "d" THEN destroy(m, event, sub) ELSE m)
                EXCEPT !.calls = Append(m.calls,
                    [sub |-> sub, event |-> event,
                     newState |-> m.cache, oldState |-> oldState])]

        RECURSIVE forEach(_, _)
        forEach(m, i) ==
            IF i > Len(m.subs[event]) THEN m
            ELSE forEach(called(m, m.subs[event][i]), i + 1)
    IN
    forEach(st, 1)

\* lines 20-24: _updateCache()
updateCache(st) == [st EXCEPT !.cache = [x \in DOMAIN st.map |-> st.map[x]]]

\* lines 134-136: getAll()
getAll(st) == [x \in DOMAIN st.cache |-> st.cache[x]]

\* lines 138-140: get(key)
get(st, key) == Prop(st.map, key)

\* lines 33-48: on(event, callback), the event one of the three of the
\* constructor; the object with destroy is returned after the call of line
\* 40, in which no callback can use it yet
on(st, event, callback) ==
    [st EXCEPT !.subs[event] = Append(@, callback),
               !.calls = Append(@, [sub |-> callback, event |-> "set",
                                    newState |-> st.cache, oldState |-> <<>>])]


\* lines 58-74: set(key, val, notify)
set(st, key, val, n) ==
    LET
        setNotify(m) == IF n THEN notify(m, "set", m.cache) ELSE m

        setMap(m) ==
            [m EXCEPT !.map = [x \in DOMAIN m.map \cup {key} |->
                                  IF x = key THEN val ELSE m.map[x]]]
    IN
    IF val # Prop(st.cache, key) THEN updateCache(setNotify(setMap(st)))
    ELSE st

\* lines 85-88: keys.forEach((key) => this.set(key, keyValuePairs[key], false))
RECURSIVE setEach(_, _, _)
setEach(st, keys, keyValuePairs) ==
    IF keys = <<>> THEN st
    ELSE setEach(set(st, Head(keys), Prop(keyValuePairs, Head(keys)), FALSE),
                 Tail(keys), keyValuePairs)

\* lines 83-93: replace(keyValuePairs, notify)
replace(st, keyValuePairs, n) ==
    LET
        \* Object.keys(obj), as a list: index keys first
        ObjectKeys(obj) == SelectSeq(<<"0", "k", "j">>, LAMBDA x : x \in DOMAIN obj)

        replaceNotify(m) == IF n THEN notify(m, "set", st.cache) ELSE m
    IN
    replaceNotify(setEach(setEach(st, ObjectKeys(st.cache), keyValuePairs),
                          ObjectKeys(keyValuePairs), keyValuePairs))

\* lines 102-111: del(key, notify)
del(st, key, n) ==
    LET
        delNotify(m) == IF n THEN notify(m, "delete", m.cache) ELSE m

        delMap(m) ==
            [m EXCEPT !.map = [x \in DOMAIN m.map \ {key} |-> m.map[x]]]
    IN
    IF ~Falsy(Prop(st.cache, key)) THEN updateCache(delNotify(delMap(st)))
    ELSE st

\* lines 119-126: clear(notify)
clear(st, n) ==
    LET
        clearNotify(m) == IF n THEN notify(m, "clear", getAll(st)) ELSE m
    IN
    clearNotify([st EXCEPT !.map = <<>>])

\* data-manager.js lines 38-45: set(key, value), key a string of one
\* character: spread into an object it gives {0: key}
dataManagerSet(st, key, value) ==
    LET
        \* {...a, ...b}
        Spread(a, b) ==
            [x \in DOMAIN a \cup DOMAIN b |-> IF x \in DOMAIN b THEN b[x] ELSE a[x]]

        query == IF ~Falsy(value) THEN [x \in {key} |-> value]
                 ELSE [x \in {"0"} |-> key]
    IN
    replace(st, Spread(getAll(st), query), TRUE)

\* data-manager.js lines 19-21: get(key)
dataManagerGet(st, key) == IF ~Falsy(key) THEN get(st, key) ELSE getAll(st)


\* data-manager.js lines 74-89: the function subscribeTo(keys, callback)
\* subscribes, called with (event, newState, oldState): the calls of
\* callback it makes, none or one, [updates, newState, oldState].  The
\* function "wk" is the one of subscribeTo('k', callback), "wkj" the one of
\* subscribeTo(['k', 'j'], callback).
subscribeTo(wrapper, call) ==
    LET
        \* line 74
        keys == IF wrapper = "wk" THEN {"k"}
                ELSE IF wrapper = "wkj" THEN {"k", "j"}
                ELSE {}

        oldValue(property) == Prop(call.oldState, property)

        newValue(property) == Prop(call.newState, property)

        updated(properties) ==
            IF properties = {} THEN <<>>
            ELSE <<[updates |-> [property \in properties |->
                                    [oldValue |-> oldValue(property),
                                     newValue |-> newValue(property)]],
                    newState |-> call.newState, oldState |-> call.oldState]>>
    IN
    updated({property \in keys : newValue(property) # oldValue(property)})

\* the subscriptions on(event, callback) makes in one behaviour
MaxSubs == 2

NoOp == [op |-> "none", key |-> "", val |-> "undefined", obj |-> <<>>,
         notify |-> TRUE]

Init ==
    /\ keyLastIndex = 0
    /\ evKind = "none"
    /\ evExpr = <<>>
    /\ evCtx = ctxEmpty
    /\ evResult = Undef
    /\ evEnd = "return"
    /\ scanKind = "none"
    /\ scanDoc = NoScanDoc
    /\ scanSrc = <<>>
    /\ scanAttrs = {}
    /\ scanResults = <<>>
    /\ scanSteps = <<>>
    /\ scanEnd = "return"
    /\ tplKind = "none"
    /\ tplDoc = NoDoc
    /\ tplText = <<>>
    /\ tplHtml = <<>>
    /\ tplCtx = ctxEmpty
    /\ dom = <<>>
    /\ elements = <<>>
    /\ tplThrown = FALSE
    /\ bindCount = 0
    /\ dispatches = <<>>
    /\ calls = <<>>
    /\ ldKind = "none"
    /\ ldSrc = <<>>
    /\ ldAttrs = {}
    /\ ldFiles = {}
    /\ ldRun = [end |-> "none"]
    \* two hosts with an open shadow root, the first with content of its own
    /\ cnKind = "none"
    /\ cnList = <<>>
    /\ cnContext = "undefined"
    /\ cnRoot = "undefined"
    /\ shadowChildren = [h \in OpenHosts |-> IF h = "hostA" THEN <<"old">> ELSE <<>>]
    /\ divChildren = <<>>
    /\ cnBefore = [shadow |-> shadowChildren, divs |-> divChildren]
    /\ cnReturn = <<"none", "", 0>>
    \* new DataManager(): an EventMap with no entry and no subscriber
    /\ stMap = <<>>
    /\ stCache = <<>>
    /\ stSubs = [e \in StoreEvents |-> <<>>]
    /\ stHandles = {}
    /\ stCalls = <<>>
    /\ stOp = NoOp
    /\ stBefore = [map |-> <<>>, cache |-> <<>>, subs |-> stSubs]

\* template(expr, ctx); r is its outcome
Template(expr, ctx) ==
    LET
        TemplateReturns(r) ==
            /\ evKind' = "template"
            /\ evExpr' = expr
            /\ evCtx' = ctx
            /\ evResult' = IF r.end = "return" THEN Str(r.out) ELSE Undef
            /\ evEnd' = r.end
            /\ keyLastIndex' = r.li
            /\ UNCHANGED <<scanVars, tplVars, ldVars, cnVars, stVars>>
    IN
    TemplateReturns(template(expr, ctx, keyLastIndex))

\* getFromObj(path, ctx), the lookup helper called on its own
GetFromObj(path, ctx) ==
    LET
        GetFromObjReturns(r) ==
            /\ evKind' = "getFromObj"
            /\ evExpr' = path
            /\ evCtx' = ctx
            /\ evResult' = r.v
            /\ evEnd' = "return"
            /\ keyLastIndex' = r.li
            /\ UNCHANGED <<scanVars, tplVars, ldVars, cnVars, stVars>>
    IN
    GetFromObjReturns(getFromObj(path, ctx, keyLastIndex))

EvNext ==
    \/ \E call \in EvCalls : Template(call[1], call[2])
    \* also paths that go on after a missing segment, a path with spaces
    \* around it, and a context with the own key "a.b": {"a.b": "lit", a: {b: "x"}}
    \/ \E p \in EvPaths \cup {<<"a",".","c",".","l","e","n","g","t","h">>, <<"b",".","l","e","n","g","t","h">>, <<"b",".","c",".","b">>, <<" ","a",".","c"," ">>},
          c \in PlainContexts
                 \cup {Obj({<<<<"a",".","b">>, Str(<<"l","i","t">>)>>, <<kA, Obj({<<kB, Str(sX)>>})>>})} :
          GetFromObj(p, c)

SpecEval == Init /\ [][EvNext]_vars

\* attrParse(html, tagAttr) on the markup of d, tagAttr accepting attributes:
\* the call returns the results of the context Parser.parse ends with; the
\* positions the parser stopped at and the way it ended are kept beside them
AttrParse(d, attributes) ==
    /\ scanKind' = "parsed"
    /\ scanDoc' = d
    /\ scanSrc' = ScanMarkup(d)
    /\ scanAttrs' = attributes
    /\ scanResults' = IF attrsParserParse(ScanMarkup(d), attributes).end = "return"
                      THEN attrParse(ScanMarkup(d), attributes)
                      ELSE <<>>
    /\ scanSteps' = attrsParserParse(ScanMarkup(d), attributes).steps
    /\ scanEnd' = attrsParserParse(ScanMarkup(d), attributes).end
    /\ UNCHANGED <<keyLastIndex, evVars, tplVars, ldVars, cnVars, stVars>>

ScanNext ==
    \E d \in ScanDocs \cup RegionDocs \cup RawDocs,
       attributes \in ScanAttributes :
        AttrParse(d, attributes)

SpecScan == Init /\ [][ScanNext]_vars

\* htmlLoader(content): the build step, with the configuration's defaults and
\* no file beside the document
Compile(doc) ==
    /\ tplKind' = "compiled"
    /\ tplDoc' = doc
    /\ tplText' = htmlLoader(doc.src, DefaultAttributes, {}, <<>>).out
    /\ tplHtml' = <<>>
    /\ tplCtx' = ctxEmpty
    /\ dom' = <<>>
    /\ elements' = <<>>
    /\ tplThrown' = FALSE
    /\ bindCount' = 0
    /\ dispatches' = <<>>
    /\ calls' = <<>>
    /\ UNCHANGED <<keyLastIndex, evVars, scanVars, ldVars, cnVars, stVars>>

\* the document after a call of bindEvents; b is the call's outcome
Bound(kind, doc, html, ctx, b, count) ==
    /\ tplKind' = kind
    /\ tplDoc' = doc
    /\ tplHtml' = html
    /\ tplCtx' = ctx
    /\ dom' = b.nodes
    /\ elements' = IF b.thrown \/ kind # "invoked" THEN <<>>
                   ELSE headChildren(b.nodes) \o bodyChildNodes(b.nodes)
    /\ tplThrown' = b.thrown
    /\ bindCount' = count
    /\ keyLastIndex' = b.li
    /\ UNCHANGED <<tplText, evVars, scanVars, ldVars, cnVars, stVars>>

\* the template function called with p: the literal is evaluated (lit),
\* parsed, bound, and the node list is made of head.children and
\* body.childNodes; setupConnect returns the list it is given
Invoke(p) ==
    LET
        InvokeLiteral(lit) ==
            IF lit.ok
            THEN /\ Bound("invoked", tplDoc, lit.out, p,
                          bindEvents(parseFromString(lit.out), p, keyLastIndex), 1)
                 /\ dispatches' = <<>>
                 /\ calls' = <<>>
            ELSE /\ tplKind' = "invoked"
                 /\ tplHtml' = <<>>
                 /\ tplCtx' = p
                 /\ dom' = <<>>
                 /\ elements' = <<>>
                 /\ tplThrown' = TRUE
                 /\ bindCount' = 0
                 /\ dispatches' = <<>>
                 /\ calls' = <<>>
                 /\ UNCHANGED <<tplDoc, tplText, keyLastIndex, evVars,
                              scanVars, ldVars, cnVars, stVars>>
    IN
    /\ tplText # <<>>
    /\ InvokeLiteral(evalLiteral(tplText, 1, p))

\* bindEvents(root, ctx) on the body of a document parsed from doc's markup
BindMarkup(doc, ctx) ==
    /\ Bound("bound", doc, doc.src, ctx,
             bindEvents(parseFromString(doc.src), ctx, keyLastIndex), 1)
    /\ tplText' = tplText
    /\ dispatches' = <<>>
    /\ calls' = <<>>

\* bindEvents(root, ctx) once more on the same root
Rebind ==
    /\ bindCount >= 1
    /\ bindCount < MaxBinds
    /\ Bound(tplKind, tplDoc, tplHtml, tplCtx,
             bindEvents(dom, tplCtx, keyLastIndex), bindCount + 1)
    /\ UNCHANGED <<dispatches, calls>>

\* el.dispatchEvent(new Event(ev)) on the node k: its listeners for ev run
\* in the order they were added, fnOrName.apply(context, args)
RECURSIVE handlerCalls(_, _)
handlerCalls(ls, ev) ==
    IF ls = <<>> THEN <<>>
    ELSE IF Head(ls).event = ev
    THEN <<[fn |-> Head(ls).fn, this |-> Head(ls).ctx]>>
         \o handlerCalls(Tail(ls), ev)
    ELSE handlerCalls(Tail(ls), ev)

Dispatch(k, ev) ==
    /\ dom[k].kind = "el"
    /\ Len(dispatches) < MaxDispatches
    /\ dispatches' = Append(dispatches, <<k, ev>>)
    /\ calls' = calls \o handlerCalls(dom[k].listeners, ev)
    /\ UNCHANGED <<tplKind, tplDoc, tplText, tplHtml, tplCtx, dom,
                   elements, tplThrown, bindCount, keyLastIndex, evVars,
                   scanVars, ldVars, cnVars, stVars>>

TplNext ==
    \/ \E doc \in CompileDocs : Compile(doc)
    \/ \E p \in InvokeProps : Invoke(p)
    \/ \E doc \in BindDocs, ctx \in BindContexts : BindMarkup(doc, ctx)
    \/ Rebind
    \/ \E k \in 1..Len(dom), ev \in Events : Dispatch(k, ev)

SpecTemplate == Init /\ [][TplNext]_vars

\* htmlLoader(content) called by the build on the document content, the
\* loader configured with attributes, files the files that exist
Load(content, attributes, files, rnds) ==
    /\ ldKind' = "loaded"
    /\ ldSrc' = content
    /\ ldAttrs' = attributes
    /\ ldFiles' = files
    /\ ldRun' = htmlLoader(content, attributes, files, rnds)
    /\ UNCHANGED <<keyLastIndex, evVars, scanVars, tplVars, cnVars, stVars>>

LoadNext ==
    \E content \in LoaderDocs, attributes \in LoaderAttributes,
       files \in LoaderFiles, rnds \in LoaderRnds :
        Load(content, attributes, files, rnds)

SpecLoader == Init /\ [][LoadNext]_vars


\* setupConnect(nodeList, context): attaches connect to the list
SetupConnect(nodeList, context) ==
    /\ cnKind' = "setup"
    /\ cnList' = nodeList
    /\ cnContext' = context
    /\ UNCHANGED <<cnRoot, shadowChildren, divChildren, cnBefore, cnReturn>>
    /\ UNCHANGED <<keyLastIndex, evVars, scanVars, tplVars, ldVars, stVars>>

\* nodeList.connect(root)
Connect(root) ==
    /\ cnKind # "none"
    /\ \/ connectTarget(connectRoot(root, cnContext), divChildren)[1] = "shadow"
       \/ Len(divChildren) < MaxDivs
    /\ cnKind' = "connected"
    /\ cnRoot' = root
    /\ cnBefore' = [shadow |-> shadowChildren, divs |-> divChildren]
    /\ cnReturn' = connectTarget(connectRoot(root, cnContext), divChildren)
    /\ shadowChildren' =
          connectFill(shadowChildren, divChildren,
                      connectTarget(connectRoot(root, cnContext), divChildren),
                      cnList).shadow
    /\ divChildren' =
          connectFill(shadowChildren, divChildren,
                      connectTarget(connectRoot(root, cnContext), divChildren),
                      cnList).divs
    /\ UNCHANGED <<cnList, cnContext>>
    /\ UNCHANGED <<keyLastIndex, evVars, scanVars, tplVars, ldVars, stVars>>

ConnectNext ==
    \/ \E nodeList \in {<<>>, <<"n1", "n2">>, <<"n3", "n2">>},
          context \in {"props", "hostA", "hostClosed"} :
          SetupConnect(nodeList, context)
    \/ \E root \in {"undefined"} \cup ConnectElements : Connect(root)

SpecConnect == Init /\ [][ConnectNext]_vars


\* the EventMap before an operation
St == [map |-> stMap, cache |-> stCache, subs |-> stSubs, calls |-> <<>>]

\* DataManager.set(key, value)
DataManagerSet(key, value) ==
    /\ stOp' = [NoOp EXCEPT !.op = "DataManager.set", !.key = key, !.val = value]
    /\ stBefore' = [map |-> stMap, cache |-> stCache, subs |-> stSubs]
    /\ stMap' = dataManagerSet(St, key, value).map
    /\ stCache' = dataManagerSet(St, key, value).cache
    /\ stCalls' = dataManagerSet(St, key, value).calls
    /\ stSubs' = dataManagerSet(St, key, value).subs
    /\ UNCHANGED stHandles
    /\ UNCHANGED <<keyLastIndex, evVars, scanVars, tplVars, ldVars, cnVars>>

\* EventMap.set(key, val, notify)
Set(key, val, n) ==
    /\ stOp' = [NoOp EXCEPT !.op = "set", !.key = key, !.val = val, !.notify = n]
    /\ stBefore' = [map |-> stMap, cache |-> stCache, subs |-> stSubs]
    /\ stMap' = set(St, key, val, n).map
    /\ stCache' = set(St, key, val, n).cache
    /\ stCalls' = set(St, key, val, n).calls
    /\ stSubs' = set(St, key, val, n).subs
    /\ UNCHANGED stHandles
    /\ UNCHANGED <<keyLastIndex, evVars, scanVars, tplVars, ldVars, cnVars>>

\* EventMap.replace(keyValuePairs, notify)
Replace(keyValuePairs, n) ==
    /\ stOp' = [NoOp EXCEPT !.op = "replace", !.obj = keyValuePairs, !.notify = n]
    /\ stBefore' = [map |-> stMap, cache |-> stCache, subs |-> stSubs]
    /\ stMap' = replace(St, keyValuePairs, n).map
    /\ stCache' = replace(St, keyValuePairs, n).cache
    /\ stCalls' = replace(St, keyValuePairs, n).calls
    /\ stSubs' = replace(St, keyValuePairs, n).subs
    /\ UNCHANGED stHandles
    /\ UNCHANGED <<keyLastIndex, evVars, scanVars, tplVars, ldVars, cnVars>>

\* EventMap.del(key, notify)
Del(key, n) ==
    /\ stOp' = [NoOp EXCEPT !.op = "del", !.key = key, !.notify = n]
    /\ stBefore' = [map |-> stMap, cache |-> stCache, subs |-> stSubs]
    /\ stMap' = del(St, key, n).map
    /\ stCache' = del(St, key, n).cache
    /\ stCalls' = del(St, key, n).calls
    /\ stSubs' = del(St, key, n).subs
    /\ UNCHANGED stHandles
    /\ UNCHANGED <<keyLastIndex, evVars, scanVars, tplVars, ldVars, cnVars>>

\* EventMap.clear(notify)
Clear(n) ==
    /\ stOp' = [NoOp EXCEPT !.op = "clear", !.notify = n]
    /\ stBefore' = [map |-> stMap, cache |-> stCache, subs |-> stSubs]
    /\ stMap' = clear(St, n).map
    /\ stCache' = clear(St, n).cache
    /\ stCalls' = clear(St, n).calls
    /\ stSubs' = clear(St, n).subs
    /\ UNCHANGED stHandles
    /\ UNCHANGED <<keyLastIndex, evVars, scanVars, tplVars, ldVars, cnVars>>

\* EventMap.on(event, callback), as DataManager.subscribe calls it for 'set'
On(event, callback) ==
    /\ Len(stSubs["clear"]) + Len(stSubs["delete"]) + Len(stSubs["set"]) < MaxSubs
    /\ stOp' = [NoOp EXCEPT !.op = "on", !.key = event, !.val = callback]
    /\ stBefore' = [map |-> stMap, cache |-> stCache, subs |-> stSubs]
    /\ stSubs' = on(St, event, callback).subs
    /\ stHandles' = stHandles \cup {<<event, callback>>}
    /\ stCalls' = on(St, event, callback).calls
    /\ UNCHANGED <<stMap, stCache>>
    /\ UNCHANGED <<keyLastIndex, evVars, scanVars, tplVars, ldVars, cnVars>>

\* destroy() of the object an earlier on(event, callback) returned
Destroy(event, callback) ==
    /\ <<event, callback>> \in stHandles
    /\ stOp' = [NoOp EXCEPT !.op = "destroy", !.key = event, !.val = callback]
    /\ stBefore' = [map |-> stMap, cache |-> stCache, subs |-> stSubs]
    /\ stSubs' = destroy(St, event, callback).subs
    /\ stCalls' = <<>>
    /\ UNCHANGED <<stMap, stCache, stHandles>>
    /\ UNCHANGED <<keyLastIndex, evVars, scanVars, tplVars, ldVars, cnVars>>

StoreNext ==
    \/ \E key \in {"k", "j"}, value \in {"#0", "a"} : DataManagerSet(key, value)
    \/ \E key \in {"k", "j"}, val \in {"#0", "a"}, n \in BOOLEAN : Set(key, val, n)
    \/ \E keyValuePairs \in {<<>>, [x \in {"k"} |-> "a"],
                             [x \in {"k", "j"} |-> IF x = "k" THEN "#0" ELSE "a"]},
          n \in BOOLEAN : Replace(keyValuePairs, n)
    \/ \E key \in {"k", "j"}, n \in BOOLEAN : Del(key, n)
    \/ \E n \in BOOLEAN : Clear(n)
    \* 'set' is the event DataManager.subscribe passes to on
    \/ \E event \in {"set"}, callback \in {"f", "g"} : On(event, callback)
    \/ \E event \in {"set"}, callback \in {"f", "g"} : Destroy(event, callback)

SpecStore == Init /\ [][StoreNext]_vars


\* DataManager.subscribeTo(keys, callback): subscribe(wrapper), which is
\* _state.on('set', wrapper)
SubscribeTo(wrapper) ==
    /\ Len(stSubs["clear"]) + Len(stSubs["delete"]) + Len(stSubs["set"]) < MaxSubs
    /\ stOp' = [NoOp EXCEPT !.op = "subscribeTo", !.key = "set", !.val = wrapper]
    /\ stBefore' = [map |-> stMap, cache |-> stCache, subs |-> stSubs]
    /\ stSubs' = on(St, "set", wrapper).subs
    /\ stHandles' = stHandles \cup {<<"set", wrapper>>}
    /\ stCalls' = on(St, "set", wrapper).calls
    /\ UNCHANGED <<stMap, stCache>>
    /\ UNCHANGED <<keyLastIndex, evVars, scanVars, tplVars, ldVars, cnVars>>

\* the data store with subscribers: a callback that destroys its own
\* subscription, a passive one, and the functions of subscribeTo
SubscribeNext ==
    \/ \E key \in {"k", "j"}, value \in {"#0", "a", "b"} : DataManagerSet(key, value)
    \/ \E callback \in {"d", "g"} : On("set", callback)
    \/ \E wrapper \in {"wk", "wkj"} : SubscribeTo(wrapper)
    \/ \E callback \in {"d", "g", "wk", "wkj"} : Destroy("set", callback)

SpecSubscribe == Init /\ [][SubscribeNext]_vars

-----------------------------------------------------------------------------
(* What the specification says a template resolves to, written without the *)
(* evaluator's operators: the reference the evaluator is compared with.    *)

\* the value at a dotted path: own properties, segment by segment
RECURSIVE PathValue(_, _)
PathValue(v, segs) ==
    IF segs = <<>> \/ ~NotNull(v) THEN v
    ELSE PathValue(GetProp(v, Head(segs)), Tail(segs))

Resolvable(ctx, path) == NotNull(PathValue(ctx, SplitDot(Trim(path))))

IsMarker(s) ==
    /\ Len(s) >= 4
    /\ At(s, 1, Open)
    /\ s[Len(s)] = "}"
    /\ \A k \in 3..(Len(s) - 1) : s[k] \notin {"$", "{", "}"}

MarkerPath(s) == SubSeq(s, 3, Len(s) - 1)

\* the last "${" before the position j, or 0
RECURSIVE LastOpenBefore(_, _)
LastOpenBefore(s, j) ==
    IF j < 1 THEN 0
    ELSE IF At(s, j, Open) THEN j
    ELSE LastOpenBefore(s, j - 1)

MaxSplices == 6

\* innermost-first resolution: the innermost marker s[i..j] is replaced by
\* the value at its path until no marker is left.
\*   [ok, out]: ok is FALSE when a path has no value or when more than
\*   MaxSplices replacements are needed
RECURSIVE RefResolve(_, _, _)
RefSplice(s, ctx, n, i, j, v) ==
    IF ~NotNull(v) \/ n = 0 THEN [ok |-> FALSE, out |-> s]
    ELSE RefResolve(SubSeq(s, 1, i - 1) \o ToStr(v) \o From(s, j + 1),
                    ctx, n - 1)

RefInner(s, ctx, n, i, j) ==
    IF i = 0 THEN [ok |-> TRUE, out |-> s]
    ELSE RefSplice(s, ctx, n, i, j,
                   PathValue(ctx, SplitDot(Trim(SubSeq(s, i + 2, j - 1)))))

RefClose(s, ctx, n, j) ==
    IF j = 0 THEN [ok |-> TRUE, out |-> s]
    ELSE RefInner(s, ctx, n, LastOpenBefore(s, j - 1), j)

RefResolve(s, ctx, n) == RefClose(s, ctx, n, FirstIn(s, 1, {"}"}))

\* the markers of s that hold no marker, as <<first, last>> positions
Markers(s) ==
    {m \in (1..Len(s)) \X (1..Len(s)) :
        m[1] < m[2] /\ IsMarker(SubSeq(s, m[1], m[2]))}

\* the prefixed forms of a path and the form without the prefix
Unprefixed(e) ==
    CASE At(e, 1, ThisDot(<<>>))      -> From(e, 6)
      [] At(e, 1, PropsDot(<<>>))     -> From(e, 7)
      [] At(e, 1, Mk(<<>>)) /\ At(e, 3, ThisDot(<<>>))
                                      -> Open \o From(e, 8)
      [] At(e, 1, Mk(<<>>)) /\ At(e, 3, PropsDot(<<>>))
                                      -> Open \o From(e, 9)
      [] OTHER                        -> e

-----------------------------------------------------------------------------
(* The claims about the expression evaluator, checked under SpecEval.      *)

\* C1: for every context and every top-level marker ${path} whose path
\* cannot be resolved in the context, resolve does not throw and leaves the
\* literal marker text in the result: resolve("${a.c}", {a: {b: "x"}}) is
\* "${a.c}".
C1_UnresolvedMarkerIsKept ==
    (/\ evKind = "template"
     /\ IsMarker(evExpr)
     /\ ~Resolvable(evCtx, MarkerPath(evExpr)))
    => (evEnd = "return" /\ evResult = Str(evExpr))

\* C2: resolve replaces every top-level marker whose path is present in the
\* context by the value at that path, for each marker of a template that
\* holds several dotted-path markers and for each call of any sequence of
\* calls: nothing is kept between calls.
C2_PresentMarkersAreReplaced ==
    (/\ evKind = "template"
     /\ evExpr \in PlainTemplates
     /\ Markers(evExpr) # {}
     /\ \A m \in Markers(evExpr) :
           Resolvable(evCtx, MarkerPath(SubSeq(evExpr, m[1], m[2]))))
    => (/\ evEnd = "return"
        /\ RefResolve(evExpr, evCtx, MaxSplices).ok
        /\ evResult = Str(RefResolve(evExpr, evCtx, MaxSplices).out))

\* C3: a path written with a leading this. or props. resolves exactly like
\* the same path without the prefix, in a marker and as a bare expression:
\* a call on a prefixed form returns what the call on the unprefixed form
\* returns from the same state.
C3_PrefixIsStripped ==
    [][(/\ evKind' = "template"
        /\ Unprefixed(evExpr') # evExpr')
       => evResult' = Str(template(Unprefixed(evExpr'), evCtx',
                                   keyLastIndex).out)]_vars

\* C4: nested markers are resolved innermost-first, at every nesting depth:
\* the inner path is looked up, its value is spliced into the outer path and
\* the outer marker is resolved with the spliced path, so that
\* resolve("${a.${b}}", {b: "c", a: {c: "ok"}}) is "ok".
C4_NestedInnermostFirst ==
    (/\ evKind = "template"
     /\ evExpr \in NestedTemplates
     /\ RefResolve(evExpr, evCtx, MaxSplices).ok)
    => (evEnd = "return"
        /\ evResult = Str(RefResolve(evExpr, evCtx, MaxSplices).out))

\* C5: resolve terminates for every expression and every context, contexts
\* whose values are themselves strings included, and ends with a string that
\* holds no top-level marker whose path exists in the context.
C5_ResolveTerminates ==
    evKind = "template"
    => (/\ evEnd = "return"
        /\ \A m \in Markers(evResult.s) :
              ~Resolvable(evCtx, MarkerPath(SubSeq(evResult.s, m[1], m[2]))))

-----------------------------------------------------------------------------
(* The claims about the template function and bindEvents, checked under    *)
(* SpecTemplate.                                                           *)

\* the element of the document that carries the event attribute of the
\* model's documents: the button
ButtonNodes == {k \in 1..Len(dom) : dom[k].kind = "el" /\ dom[k].tag = sButton}

\* the text of the child text nodes of the node k
RECURSIVE ChildText(_, _, _)
ChildText(ns, k, i) ==
    IF i > Len(ns) THEN <<>>
    ELSE IF ns[i].kind = "text" /\ ns[i].parent = k
    THEN ns[i].text \o ChildText(ns, k, i + 1)
    ELSE ChildText(ns, k, i + 1)

\* the attributes named on... the node k had when the document was parsed
OriginalOn(k) ==
    SelectSeq(parseFromString(tplHtml)[k].attrs,
              LAMBDA a : startsWithOn(a[1]))

\* the value of an event attribute names a function of the context: a path,
\* with or without the this. / props. prefix, bare or wrapped in one marker
HandlerPath(value) ==
    IF IsMarker(value) THEN Unprefixed(MarkerPath(value))
    ELSE Unprefixed(value)

HasTarget(ctx, value) ==
    PathValue(ctx, SplitDot(Trim(HandlerPath(value)))).t = "fn"

\* C6: compiling markup whose element carries an event attribute wrapped in
\* a marker with a this.-prefixed path and calling the template function
\* with properties in which the path is a function gives an element with a
\* listener for the event: one dispatch of the event calls the function
\* exactly once, with this bound to the properties.  The same holds at run
\* time for onclick="itemClick", onclick="this.itemClick" and
\* onclick="this.someObj.itemClick".
C6_DispatchCallsHandlerOnce ==
    (/\ tplKind \in {"invoked", "bound"}
     /\ tplDoc.path # <<>>
     /\ PathValue(tplCtx, SplitDot(tplDoc.path)).t = "fn"
     /\ \E k \in ButtonNodes : dispatches = << <<k, sClick>> >>)
    => calls = <<[fn |-> PathValue(tplCtx, SplitDot(tplDoc.path)).s,
                  this |-> tplCtx]>>

\* C7: compiling a document that holds one element and no stylesheet link,
\* <h3>${this.title}</h3>, and calling the template function with
\* {title: "Hi"} returns a node list of length 1 whose first element is the
\* h3 with the text "Hi": the list holds the document's own top-level nodes
\* only.
C7_SingleElementRenders ==
    (/\ tplKind = "invoked"
     /\ tplDoc = docTitle
     /\ GetProp(tplCtx, sTitle) = Str(sHi))
    => (/\ ~tplThrown
        /\ Len(elements) = 1
        /\ dom[elements[1]].tag = sH3
        /\ ChildText(dom, elements[1], 1) = sHi)

\* C8: bind is idempotent: for every tree and context, any number of calls
\* on the same root attaches at most one listener per original on attribute
\* of each descendant element, and after the first call no descendant
\* element carries an attribute whose name starts with on.
C8_BindIdempotent ==
    bindCount >= 1
    => \A k \in 1..Len(dom) :
          (dom[k].kind = "el" /\ InBody(dom, k))
          => (/\ \A i \in 1..Len(dom[k].attrs) :
                    ~startsWithOn(dom[k].attrs[i][1])
              /\ Len(dom[k].listeners) <= Len(OriginalOn(k)))

\* C9: when the value of an on attribute resolves neither to a function nor
\* to the name of a function-valued property of the context, bind attaches
\* no listener for it, still removes the attribute, raises nothing and goes
\* on with the remaining attributes and elements.
C9_MissingTargetIsSilent ==
    bindCount >= 1
    => \A k \in 1..Len(dom) :
          (dom[k].kind = "el" /\ InBody(dom, k))
          => \A i \in 1..Len(OriginalOn(k)) :
                ~HasTarget(tplCtx, OriginalOn(k)[i][2])
                => (/\ ~tplThrown
                    /\ \A l \in 1..Len(dom[k].listeners) :
                          dom[k].listeners[l].event
                             # From(OriginalOn(k)[i][1], 3)
                    /\ \A n \in 1..Len(dom) : \A j \in 1..Len(dom[n].attrs) :
                          ~startsWithOn(dom[n].attrs[j][1]))

-----------------------------------------------------------------------------
(* The claim about the scanner, checked under SpecScan.                    *)

\* C10: for every accepted attribute, unquoted, single-quoted or
\* double-quoted, the match has start equal to the offset of the first
\* character of the value, after name= and the opening quote when there is
\* one, and its value and length exclude the quotes.
C10_MatchExcludesQuotes ==
    (/\ scanKind = "parsed"
     /\ scanDoc.region = "none"
     /\ tagAttr(scanAttrs, scanDoc.tag, scanDoc.name))
    => \E i \in 1..Len(scanResults) :
          scanResults[i] =
             [start |-> Len(scanDoc.pre) + 1 + Len(scanDoc.tag) + 1
                        + Len(scanDoc.name) + 1 + Len(scanDoc.quote),
              length |-> Len(scanDoc.value),
              value |-> scanDoc.value]

\* C11: the scanner reports no match for text that lies inside a comment, on
\* one line or on several, a CDATA section, a doctype, a processing
\* instruction or a closing tag: the outside state skips these regions as a
\* whole.
C11_RegionsAreSkipped ==
    (scanKind = "parsed" /\ scanDoc \in RegionDocs) => scanResults = <<>>

\* the same for the regions that lie on one line and hold no ">" before the
\* text
C11_OneLineRegionsAreSkipped ==
    (/\ scanKind = "parsed"
     /\ scanDoc \in RegionDocs
     /\ scanDoc.region \notin {"lines", "cdataGt"})
    => scanResults = <<>>

\* C12: for every input, markup with tags or quoted values that are not
\* closed included, the scan terminates without raising and returns a list
\* of matches that lie in the input; every turn of the state machine
\* consumes at least one character, so that the position of the scan
\* strictly increases.
C12_ScanProgress ==
    scanKind = "parsed"
    => (/\ scanEnd = "return"
        /\ \A k \in 1..(Len(scanSteps) - 1) :
              scanSteps[k][2] < scanSteps[k + 1][2]
        /\ \A k \in 1..Len(scanSteps) : scanSteps[k][2] <= Len(scanSrc)
        /\ \A i \in 1..Len(scanResults) :
              /\ scanResults[i].start >= 0
              /\ scanResults[i].length = Len(scanResults[i].value)
              /\ scanResults[i].start + scanResults[i].length <= Len(scanSrc)
              /\ scanResults[i].value =
                    SubSeq(scanSrc, scanResults[i].start + 1,
                           scanResults[i].start + scanResults[i].length))

\* a scan of markup that is not closed has returned, after several turns and
\* with a match
C12_Witness ==
    /\ scanKind = "parsed"
    /\ scanDoc \in RawDocs
    /\ scanEnd = "return"
    /\ Len(scanSteps) >= 3
    /\ scanResults # <<>>

-----------------------------------------------------------------------------
(* The claims about the loader, checked under SpecLoader.                  *)

\* the source with every span of spans replaced by its ident, written from
\* left to right: the text before the first span, its ident, and so on
RECURSIVE Respliced(_, _, _)
Respliced(src, from, spans) ==
    LET
        ResplicedAt(sp) ==
            SubSeq(src, from, sp.start) \o sp.ident
            \o Respliced(src, sp.start + sp.length + 1, spans \ {sp})
    IN
    IF spans = {} THEN From(src, from)
    ELSE ResplicedAt(CHOOSE x \in spans : \A y \in spans : x.start <= y.start)

C14_NoTokenSurvives ==
    ldKind = "loaded"
    => (/\ ldRun.end = "return"
        /\ FirstAt(ldRun.out, 1, <<"~","~","~","H","T","M","L","L","I","N","K","~","~","~">>) = 0
        /\ \A i \in 1..Len(attrParse(ldSrc, ldAttrs)) :
              FirstAt(ldRun.out, 1, attrParse(ldSrc, ldAttrs)[i].value) # 0)

\* the event attributes of s whose value is one marker around a path, in
\* single or in double quotes: the attribute starts at q after white space,
\* its name (on and more, up to e) is followed by =, a quote, "${", the path
\* (up to j), "}" and the same quote
OnWrapped(s, q) ==
    LET
        PathChar == WordChar \cup {"."}

        WrappedTo(e, j) ==
            /\ e >= q + 2
            /\ At(s, e + 1, <<"=">>)
            /\ e + 2 <= Len(s)
            /\ s[e + 2] \in Quote
            /\ At(s, e + 3, Open)
            /\ j >= e + 5
            /\ At(s, j + 1, Close)
            /\ At(s, j + 2, <<s[e + 2]>>)

        WrappedName(e) == WrappedTo(e, RunEnd(s, e + 5, PathChar))
    IN
    /\ q >= 2
    /\ s[q - 1] \in Space
    /\ At(ToLower(SubSeq(s, q, q + 1)), 1, <<"o","n">>)
    /\ WrappedName(RunEnd(s, q, WordChar))

\* s from the position p on with each of these attributes written as
\* name="path" (attribute names are case-insensitive; the on of the name
\* is written in lower case)
RECURSIVE OnUnwrapped(_, _)
OnUnwrapped(s, p) ==
    LET
        PathChar == WordChar \cup {"."}

        UnwrappedTo(q, e, j) ==
            SubSeq(s, p, q - 1) \o <<"o", "n">> \o SubSeq(s, q + 2, e)
            \o <<"=", "\"">> \o SubSeq(s, e + 5, j) \o <<"\"">>
            \o OnUnwrapped(s, j + 3)

        UnwrappedName(q, e) == UnwrappedTo(q, e, RunEnd(s, e + 5, PathChar))

        UnwrappedNext(starts) ==
            IF starts = {} THEN From(s, p)
            ELSE UnwrappedName(SetMin(starts), RunEnd(s, SetMin(starts), WordChar))
    IN
    UnwrappedNext({q \in p..Len(s) : OnWrapped(s, q)})

RECURSIVE StyleLinks(_, _)
StyleLinks(s, p) ==
    LET
        HrefEq == <<"h","r","e","f","=","\"">>

        LinkValue(k, e, h, c) ==
            IF h # 0 /\ h < e /\ c # 0 /\ c < e /\ c >= h + 9
               /\ At(ToLower(s), c - 3, <<"c","s","s">>)
            THEN <<[tag |-> SubSeq(s, k, e), href |-> SubSeq(s, h + 6, c - 1)]>>
            ELSE <<>>

        LinkHref(k, e, h) ==
            LinkValue(k, e, h, IF h = 0 THEN 0 ELSE FirstIn(s, h + 6, {"\""}))

        LinkTag(k, e) ==
            IF e = 0 THEN <<>>
            ELSE LinkHref(k, e, FirstAt(ToLower(s), k, HrefEq)) \o StyleLinks(s, e + 1)

        LinkFrom(k) ==
            IF k = 0 THEN <<>> ELSE LinkTag(k, FirstIn(s, k, {">"}))
    IN
    LinkFrom(FirstAt(ToLower(s), p, <<"<","l","i","n","k"," ">>))

\* the file a href of a document in /src names
StyleFile(href) ==
    IF At(href, 1, <<"/">>) THEN href
    ELSE IF At(href, 1, <<".","/">>) THEN <<"/","s","r","c","/">> \o From(href, 3)
    ELSE <<"/","s","r","c","/">> \o href

\* C16: for every stylesheet link whose href resolves to an existing local
\* file the compiler is called once on the resolved path, the link tag is
\* absent from the output markup and the compiled text is in the one
\* prepended style block, the texts in document order (line feeds between
\* the texts aside); with no such link the style content is empty; a link
\* whose file does not exist stays in the markup and contributes nothing.
\* Stated for the documents in which no reference is substituted.
C16_StylesheetsAreInlined ==
    LET
        Found(l) == \E f \in ldFiles : f.path = StyleFile(l.href)

        Css(l) == (CHOOSE f \in ldFiles : f.path = StyleFile(l.href)).css

        NoLineFeed(t) == SelectSeq(t, LAMBDA ch : ch # "\n")

        Inlined(links) ==
            /\ ldRun.end = "return"
            /\ \A k \in 1..Len(links) :
                  IF Found(links[k])
                  THEN /\ Cardinality({i \in 1..Len(ldRun.rendered) :
                              ldRun.rendered[i] = StyleFile(links[k].href)}) = 1
                       /\ FirstAt(ldRun.markup, 1, links[k].tag) = 0
                  ELSE FirstAt(ldRun.markup, 1, links[k].tag) # 0
            /\ NoLineFeed(ldRun.style)
                  = Join([k \in 1..Len(links) |->
                            IF Found(links[k]) THEN Css(links[k]) ELSE <<>>])
            /\ FirstAt(ldRun.out, 1, <<"<","s","t","y","l","e",">">>) = 1
            /\ FirstAt(ldRun.out, 2, <<"<","s","t","y","l","e",">">>) = 0
    IN
    (ldKind = "loaded" /\ ldRun.done = <<>>) => Inlined(StyleLinks(ldSrc, 1))

(* The claim about the mount function, checked under SpecConnect. *)

\* the child nodes of a target
MountChildren(target) ==
    IF target[1] = "shadow" THEN shadowChildren[target[2]]
    ELSE divChildren[target[3]]

\* C17: the mount function clears the target's previous content, appends
\* every node in list order and returns the target; the target is the open
\* shadow root of the given root (or of the context when no root is given
\* and the context is an element), otherwise a fresh detached container,
\* also when a root element without an open shadow root was passed.
C17_MountFillsTarget ==
    LET
        Given ==
            IF cnRoot # "undefined" THEN cnRoot
            ELSE IF cnContext \in ConnectElements THEN cnContext
            ELSE "undefined"
    IN
    cnKind = "connected"
    => /\ IF Given \in OpenHosts
          THEN cnReturn = <<"shadow", Given, 0>>
          ELSE /\ cnReturn[1] = "div"
               /\ cnReturn[3] = Len(cnBefore.divs) + 1
               /\ cnReturn[3] = Len(divChildren)
       /\ MountChildren(cnReturn) = cnList

\* a list of several nodes was mounted, with no root given, into the open
\* shadow root of its context, which held a node that is not of the list
C17_Witness ==
    /\ cnKind = "connected"
    /\ cnRoot = "undefined"
    /\ cnContext = "hostA"
    /\ Len(cnList) >= 2
    /\ \E k \in 1..Len(cnBefore.shadow["hostA"]) :
          \A i \in 1..Len(cnList) : cnList[i] # cnBefore.shadow["hostA"][k]
    /\ cnReturn = <<"shadow", "hostA", 0>>

(* The claims about the data store, checked under SpecStore. *)

\* the keys an object or a Map of the model can hold
AllKeys == {"0", "k", "j"}

\* C18: DataStore set/get round trip: for every key and every value, falsy
\* values included, after set(key, value) the call get(key) returns value,
\* the values of all other keys are unchanged and no other key is added to
\* the state.
C18_SetGetRoundTrip ==
    stOp.op = "DataManager.set"
    => /\ dataManagerGet(St, stOp.key) = stOp.val
       /\ \A x \in AllKeys \ {stOp.key} :
             /\ Prop(stMap, x) = Prop(stBefore.map, x)
             /\ x \in DOMAIN stMap <=> x \in DOMAIN stBefore.map
             /\ x \in DOMAIN stCache <=> x \in DOMAIN stBefore.cache

\* C19: in every state reached by set, replace, del and clear, getAll()
\* returns exactly the current key/value pairs of the underlying map; in
\* particular after clear() getAll() is empty (and so a later set(k, v) with
\* the value k held before stores v again).
C19_GetAllIsTheMap ==
    /\ DOMAIN stCache = DOMAIN stMap
    /\ \A x \in DOMAIN stMap : stCache[x] = stMap[x]
    /\ stOp.op = "clear" => DOMAIN stCache = {}
    /\ stOp.op = "set" => get(St, stOp.key) = stOp.val

\* C20: when set(key, val) changes the value and notify is not false, each
\* 'set' subscriber is called once, with a new state in which key maps to
\* val and an old state that holds the value key had before the call.
C20_SetNotifiesAfterTheSet ==
    (/\ stOp.op = "set"
     /\ stOp.notify
     /\ Prop(stBefore.map, stOp.key) # stOp.val)
    => /\ Len(stCalls) = Len(stSubs["set"])
       /\ \A i \in 1..Len(stCalls) :
             /\ stCalls[i].sub = stSubs["set"][i]
             /\ stCalls[i].event = "set"
             /\ Prop(stCalls[i].newState, stOp.key) = stOp.val
             /\ Prop(stCalls[i].oldState, stOp.key) = Prop(stBefore.map, stOp.key)

\* C21: del removes a value from the map: for every key present in the map,
\* whatever its value (0, false and the empty string included), after
\* del(key) get(key) is undefined and key is absent from getAll(); all
\* other entries are unchanged.
C21_DelRemovesTheKey ==
    (stOp.op = "del" /\ stOp.key \in DOMAIN stBefore.map)
    => /\ get(St, stOp.key) = "undefined"
       /\ stOp.key \notin DOMAIN getAll(St)
       /\ \A x \in AllKeys \ {stOp.key} :
             /\ x \in DOMAIN stMap <=> x \in DOMAIN stBefore.map
             /\ Prop(stMap, x) = Prop(stBefore.map, x)

\* C22: destroy() on the object on(event, callback) returned removes that
\* listener and only that one: the callback is no longer among the
\* subscribers a later notification calls, every other subscriber is still
\* there, and calling destroy() again removes no other subscriber.
C22_DestroyRemovesOnlyItsListener ==
    LET
        Count(subs, cb) == Cardinality({i \in 1..Len(subs) : subs[i] = cb})

        Before == stBefore.subs[stOp.key]

        After == stSubs[stOp.key]
    IN
    stOp.op = "destroy"
    => /\ \A cb \in {"f", "g"} \ {stOp.val} : Count(After, cb) = Count(Before, cb)
       /\ Count(Before, stOp.val) >= 1
          => Count(After, stOp.val) = Count(Before, stOp.val) - 1
       /\ \A e \in StoreEvents \ {stOp.key} : stSubs[e] = stBefore.subs[e]

(* The claims about subscribers, checked under SpecSubscribe. *)

\* the calls of its callback that the function of a subscribeTo made in the
\* last operation
WatcherCalls(wrapper) ==
    LET
        Mine == SelectSeq(stCalls, LAMBDA c : c.sub = wrapper)

        RECURSIVE Made(_)
        Made(cs) ==
            IF cs = <<>> THEN <<>>
            ELSE subscribeTo(wrapper, Head(cs)) \o Made(Tail(cs))
    IN
    Made(Mine)

\* what a subscribeTo over the keys watched is to report when the state of
\* the store (getState) goes from before to after: nothing when no watched
\* key differs, else one call that lists exactly the keys that differ
WatcherReport(watched, before, after) ==
    LET
        Changed == {x \in watched : Prop(before, x) # Prop(after, x)}
    IN
    IF Changed = {} THEN <<>>
    ELSE <<[updates |-> [x \in Changed |->
                           [oldValue |-> Prop(before, x),
                            newValue |-> Prop(after, x)]],
            newState |-> after, oldState |-> before]>>

\* C23: after any DataStore set the callback of subscribeTo(keys, callback)
\* is called if and only if the value of a watched key differs between the
\* state before and the state after the set, its first argument listing
\* exactly the changed watched keys with oldValue and newValue; at
\* subscription time it is called once if and only if some watched key
\* already has a value.
C23_SubscribeToReportsChanges ==
    LET
        Watched(wrapper) == IF wrapper = "wk" THEN {"k"} ELSE {"k", "j"}

        Subscribed(wrapper) == \E i \in 1..Len(stSubs["set"]) : stSubs["set"][i] = wrapper

        Times(wrapper) ==
            Cardinality({i \in 1..Len(stBefore.subs["set"]) :
                           stBefore.subs["set"][i] = wrapper})
    IN
    /\ stOp.op = "DataManager.set"
       => \A wrapper \in {"wk", "wkj"} :
             /\ Times(wrapper) = 0 => WatcherCalls(wrapper) = <<>>
             /\ Times(wrapper) = 1
                => WatcherCalls(wrapper)
                     = WatcherReport(Watched(wrapper), stBefore.cache, stCache)
    /\ stOp.op = "subscribeTo"
       => /\ Len(WatcherCalls(stOp.val)) <= 1
          /\ Len(WatcherCalls(stOp.val)) = 1
             <=> \E x \in Watched(stOp.val) : Prop(stCache, x) # "undefined"

\* C30: during one notification every subscriber that was registered for
\* the event when the notification began and has not been destroyed is
\* called exactly once, also when a subscriber calls destroy() on its own
\* subscription from inside its callback (which it does after it has been
\* called): the calls of a set are the subscribers of before, one each.
C30_NotificationReachesEverySubscriber ==
    stOp.op = "DataManager.set"
    => [i \in 1..Len(stCalls) |-> stCalls[i].sub] = stBefore.subs["set"]

(* A further claim about the expression evaluator, checked under SpecEval. *)

\* C24: getFromObj returns the original path text the moment a segment of a
\* dotted path is missing or null: whenever some segment is absent the
\* result is the trimmed path itself, whatever the names of the remaining
\* segments (names such as length included); an exact top-level key match
\* is returned without walking.
C24_MissingSegmentReturnsPath ==
    evKind = "getFromObj"
    => /\ NotNull(GetProp(evCtx, Trim(evExpr)))
          => evResult = GetProp(evCtx, Trim(evExpr))
       /\ (/\ ~NotNull(GetProp(evCtx, Trim(evExpr)))
           /\ ~Resolvable(evCtx, evExpr))
          => evResult = Str(Trim(evExpr))

\* C25: for every descendant element of the root and every attribute
\* on<event> whose value is the bare name of a function-valued property of
\* the context, bind attaches exactly one listener for the event named by the
\* attribute name without its leading on, a dispatch of that event calls the
\* function exactly once with this bound to the context, and bind returns
\* the root.
C25_BareNameBindsOneListener ==
    bindCount >= 1
    => \A k \in 1..Len(dom) :
          (dom[k].kind = "el" /\ InBody(dom, k))
          => \A i \in 1..Len(OriginalOn(k)) :
                GetProp(tplCtx, OriginalOn(k)[i][2]).t = "fn"
                => (/\ ~tplThrown
                    /\ SelectSeq(dom[k].listeners,
                                 LAMBDA l : l.event = From(OriginalOn(k)[i][1], 3))
                          = <<[event |-> From(OriginalOn(k)[i][1], 3),
                               fn |-> GetProp(tplCtx, OriginalOn(k)[i][2]).s,
                               ctx |-> tplCtx]>>
                    /\ dispatches = << <<k, From(OriginalOn(k)[i][1], 3)>> >>
                       => calls = <<[fn |-> GetProp(tplCtx, OriginalOn(k)[i][2]).s,
                                     this |-> tplCtx]>>)

\* C26: every reference that is replaced, the first one included, is
\* replaced by a token that is a non-empty string and differs from every
\* token made before it in the same compilation, and is recorded as
\* token -> value: the record has exactly one entry for each replaced match.
C26_EveryTokenIsFreshAndRecorded ==
    ldKind = "loaded"
    => (/\ \A i \in 1..Len(ldRun.done) :
              /\ ldRun.done[i].ident # <<>>
              /\ \A j \in 1..(i - 1) : ldRun.done[j].ident # ldRun.done[i].ident
              /\ <<ldRun.done[i].ident, ldRun.done[i].value>> \in ldRun.data
        /\ Cardinality(ldRun.data) = Len(ldRun.done))

\* C27: the scan for stylesheet links does not depend on the configured
\* attributes: for every document the link elements found, and the files
\* compiled as stylesheets, are those found and compiled for the same
\* document and files with the default (empty) attributes list.
C27_LinkScanIgnoresAttributes ==
    ldKind = "loaded"
    => (/\ ldRun.imports = htmlLoader(ldSrc, {}, ldFiles, <<>>).imports
        /\ ldRun.rendered = htmlLoader(ldSrc, {}, ldFiles, <<>>).rendered)

\* C28: the rewrite of the event attributes changes nothing else: the text
\* after it is the text before it with the wrapped event attributes
\* unwrapped, so that every attribute whose name does not begin with on and
\* every on attribute whose value is not wrapped in a marker keeps its name,
\* its quotes and its value.
C28_RewriteChangesNothingElse ==
    ldKind = "loaded"
    => ldRun.rewritten = OnUnwrapped(ldRun.replaced, 1)

\* C29: for every input and predicate the list of results is in source
\* order with spans that do not overlap (each match starts at or after the
\* start + length of the match before it), every span lies inside the
\* source, and source.substr(start, length) is the value of the match.
C29_ResultsAreOrderedSpans ==
    scanKind = "parsed"
    => (/\ \A i \in 1..Len(scanResults) :
              /\ 0 <= scanResults[i].start
              /\ 0 <= scanResults[i].length
              /\ scanResults[i].start + scanResults[i].length <= Len(scanSrc)
              /\ SubSeq(scanSrc, scanResults[i].start + 1,
                        scanResults[i].start + scanResults[i].length)
                    = scanResults[i].value
        /\ \A i \in 2..Len(scanResults) :
              scanResults[i].start
                 >= scanResults[i - 1].start + scanResults[i - 1].length)

\* a scan has returned two matches or more, none of them empty
C29_Witness ==
    /\ scanKind = "parsed"
    /\ Len(scanResults) >= 2
    /\ \A i \in 1..Len(scanResults) : scanResults[i].length > 0

=============================================================================
